---- MODULE Spec2Model ----
(***************************************************************************)
(* Game-state transition engine of huntercore (src/game/state.cpp).        *)
(*                                                                         *)
(* PerformStep(inState, stepData, outState, stepResult) is modelled as a   *)
(* sequence of passes.  The process-wide caches of state.cpp (Cache_..,    *)
(* Merchant_.., Gamecache_.., Rpg_.., Huntermsg_..) are kept in variable   *)
(* g, which survives from one call to the next exactly as the C++ globals  *)
(* do.  Amounts are counted in model units of COIN.                        *)
(***************************************************************************)
EXTENDS Integers, Sequences, FiniteSets, TLC

VARIABLES
    pc,          \* position inside PerformStep ("idle" between two calls)
    inState,     \* the GameState the caller holds and passes as inState
    stepData,    \* StepData of the running / last call
    outState,    \* GameState being built by the running / last call
    stepResult,  \* StepResult of the running / last call
    ret,         \* return value of the last call
    g,           \* process-wide caches (file-scope variables of state.cpp)
    loc,         \* locals of PerformStep that live across passes
    memo,        \* observation of the previous completed call
    nSteps       \* number of calls made by the caller so far

vars == <<pc, inState, stepData, outState, stepResult, ret, g, loc, memo, nSteps>>

---------------------------------------------------------------------------
(* Bounds of the exploration.                                              *)

MaxSteps == 2
\* the largest treasure of a block of TreasureSpec
MaxTreasure == 1800
\* the largest loot, new amount and carrying capacity of CollectSpec
MaxLoot == 4
MaxTileLoot == 5

---------------------------------------------------------------------------
(* Constants of state.cpp.                                                 *)

STATE_MAX_STAY_IN_SPAWN_AREA == 30
STATE_NUM_TEAM_COLORS == 4
SPAWN_AREA_LENGTH == 15
STATE_VERSION == 2020600
MAX_CHARACTERS_PER_PLAYER == 20
MAX_CHARACTERS_PER_PLAYER_TOTAL == 1000
DYNBANKS_NUM_BANKS == 75
DYNBANKS_MIN_LIFE == 25
DYNBANKS_MAX_LIFE == 100
MIN_GAMEROUND_DURATION == 2000
PDISASTER_MIN_TIME == 1440
PDISASTER_MAX_TIME == 12 * 1440
PDISASTER_PROBABILITY == 10000
POISON_MIN_LIFE == 1
POISON_MAX_LIFE == 50
NUM_MERCHANTS == 39

(* Constants of headers that are not part of src/ (amount.h, map.h,        *)
(* state.h, consensus rules).                                              *)
COIN == 100
MAP_WIDTH == 502
MAP_HEIGHT == 502
RPG_INTERVAL_BOUNTYCYCLE == 10000
RPG_INTERVAL_MONSTERAPOCALYPSE == 2000
NUM_DUNGEON_LEVELS == 4
PRICE_RING_IMMORTALITY == 200
CROWN_BONUS == 25
CROWN_START == <<250, 248>>
FORK_POISON == 31000
FORK_CARRYINGCAP == 32000
FORK_LESSHEARTS == 33000
FORK_LIFESTEAL == 35003
FORK_TIMESAVE == 40001

Min(a, b) == IF a < b THEN a ELSE b
Max(a, b) == IF a > b THEN a ELSE b

\* C++ integer division and remainder truncate towards zero
CDiv(a, b) == IF a >= 0 THEN a \div b ELSE -((-a) \div b)
CMod(a, b) == a - b * CDiv(a, b)

ForkInEffect(fork, nHeight) == nHeight >= fork
IsForkHeight(fork, nHeight) == nHeight = fork

---------------------------------------------------------------------------
(* Map geometry.                                                           *)

IsInsideMap(x, y) == x >= 0 /\ x < MAP_WIDTH /\ y >= 0 /\ y < MAP_HEIGHT

\* tiles of the obstacle layer
Obstacles == {<<100, 100>>, <<101, 100>>}

IsWalkable(x, y) == IsInsideMap(x, y) /\ <<x, y>> \notin Obstacles

IsInSpawnArea(x, y) ==
    ((x = 0 \/ x = MAP_WIDTH - 1) /\ (y < SPAWN_AREA_LENGTH \/ y >= MAP_HEIGHT - SPAWN_AREA_LENGTH))
    \/ ((y = 0 \/ y = MAP_HEIGHT - 1) /\ (x < SPAWN_AREA_LENGTH \/ x >= MAP_WIDTH - SPAWN_AREA_LENGTH))

AI_IS_SAFEZONE(X, Y) ==
    IF (X + Y <= 43) \/ (X + (MAP_HEIGHT - Y) <= 43)
         \/ ((MAP_WIDTH - X) + (MAP_HEIGHT - Y) <= 43) \/ ((MAP_WIDTH - X) + Y <= 43)
    THEN TRUE
    ELSE IF (X + Y < 460) \/ (X + (MAP_HEIGHT - Y) < 460)
              \/ ((MAP_WIDTH - X) + (MAP_HEIGHT - Y) < 460) \/ ((MAP_WIDTH - X) + Y < 460)
         THEN FALSE
         ELSE (X >= 225) /\ (X <= 276) /\ (Y >= 224) /\ (Y <= 275)

AI_ADJACENT_IS_SAFEZONE(X, Y) ==
    IF (X + Y < 42) \/ (X + (MAP_HEIGHT - Y) < 42)
         \/ ((MAP_WIDTH - X) + (MAP_HEIGHT - Y) < 42) \/ ((MAP_WIDTH - X) + Y < 42)
    THEN TRUE
    ELSE IF (X + Y <= 461) \/ (X + (MAP_HEIGHT - Y) <= 461)
              \/ ((MAP_WIDTH - X) + (MAP_HEIGHT - Y) <= 461) \/ ((MAP_WIDTH - X) + Y <= 461)
         THEN FALSE
         ELSE (X > 225) /\ (X < 276) /\ (Y > 224) /\ (Y < 275)

RPG_YELLOW_BASE_PERIMETER(X, Y) == (X + Y <= 43) /\ ~(X + Y < 42)
RPG_RED_BASE_PERIMETER(X, Y) == ((MAP_WIDTH - X) + Y <= 43) /\ ~((MAP_WIDTH - X) + Y < 42)
RPG_GREEN_BASE_PERIMETER(X, Y) ==
    ((MAP_WIDTH - X) + (MAP_HEIGHT - Y) <= 43) /\ ~((MAP_WIDTH - X) + (MAP_HEIGHT - Y) < 42)
RPG_BLUE_BASE_PERIMETER(X, Y) == (X + (MAP_HEIGHT - Y) <= 43) /\ ~(X + (MAP_HEIGHT - Y) < 42)

\* Coord::operator< orders by row and then by column
CoordLess(a, b) == a[2] < b[2] \/ (a[2] = b[2] /\ a[1] < b[1])

\* position of a tile in the operator< order of the whole grid, and back
TileIndex(c) == c[2] * MAP_WIDTH + c[1]
TileAt(i) == <<i % MAP_WIDTH, i \div MAP_WIDTH>>

---------------------------------------------------------------------------
(* RandomGenerator: a deterministic stream seeded by a block hash.         *)

RndSeed(hash) == (hash * 7919 + 17) % 1048576
RndAdvance(s) == (1025 * s + 12345) % 1048576

\* GetIntRnd(n): value in 0..n-1 drawn from the stream state s (after advancing)
RndValue(s, n) == (RndAdvance(s) \div 4) % n

---------------------------------------------------------------------------
(* Identifiers of state.h (merchant roles follow the order of the          *)
(* Merchant_base_x table, monsters come after the merchants).              *)

MERCH_NORMAL_FIRST == 1
MERCH_NORMAL_LAST == 38
MERCH_INFO_DEVMODE == 9
MERCH_STASIS == 11
MERCH_ARMOR_BUFFCOAT == 12
MERCH_RING_IMMORTALITY == 22
MERCH_RATIONS_TEST == 25
MERCH_AMULET_LIFE_SAVING == 37
MONSTER_REAPER == 40
MONSTER_SPITTER == 41
MONSTER_REDHEAD == 42
AI_ITEM_REGEN == 2
AI_ITEM_LIFE_SAVING == 3
RPG_ARMOR_BUFFCOAT == 1
RPG_ARMOR_LINEN == 2
AI_ATTACK_KNIGHT == 1
AI_ATTACK_ESTOC == 2
AI_ATTACK_DEATH == 5
AI_ATTACK_POISON == 6
AI_ATTACK_FIRE == 7

NPCROLE_IS_MERCHANT(N) == N >= 1 /\ N < NUM_MERCHANTS
NPCROLE_IS_MONSTER(N) == N >= MONSTER_REAPER /\ N <= MONSTER_REDHEAD

Merchant_base_x ==
    <<7, 496, 494, 13, 246, 255, 255, 244, 208, 208, 250, 260, 261, 255, 250, 245, 254, 235, 265,
      269, 257, 275, 264, 236, 212, 273, 273, 272, 260, 262, 240, 241, 237, 235, 251, 250, 240, 236>>
Merchant_base_y ==
    <<8, 4, 492, 491, 243, 243, 255, 254, 264, 265, 237, 252, 228, 251, 248, 249, 245, 255, 239,
      240, 238, 246, 237, 262, 258, 247, 249, 250, 249, 226, 272, 268, 273, 274, 244, 256, 242, 236>>
Merchant_color ==
    <<0, 1, 2, 3, 0, 1, 2, 3, 0, 1, 2, 3, 1, 0, 0, 0, 2, 3, 1,
      3, 2, 3, 1, 1, 3, 1, 3, 1, 3, 1, 3, 1, 0, 0, 2, 2, 3, 2>>
Merchant_chronon(nm) == 0

Merchant_base(nm) == <<Merchant_base_x[nm], Merchant_base_y[nm]>>

\* teleporter entries (POI 0..7): entry tile and exit tile
POI_pos_a == <<<<8, 6>>, <<245, 243>>, <<497, 4>>, <<256, 244>>,
               <<493, 494>>, <<256, 254>>, <<15, 490>>, <<245, 254>>>>
POI_pos_b == <<<<246, 245>>, <<9, 7>>, <<255, 245>>, <<496, 5>>,
               <<255, 253>>, <<492, 495>>, <<246, 253>>, <<14, 491>>>>
\* some of the harvest points of interest (POIINDEX_NORMAL_FIRST..LAST)
POI_normal == {<<203, 239>>, <<295, 218>>, <<265, 300>>, <<215, 293>>}

RPG_CLEVEL_FROM_LOOT(nAmount) ==
    IF nAmount > 100 * COIN THEN 3 ELSE IF nAmount > 20 * COIN THEN 2 ELSE 1
RPG_SCORE_FROM_CLEVEL(cl) == IF cl >= 3 THEN 100 ELSE IF cl = 2 THEN 10 ELSE 1
RPG_ADJUSTED_RATION_PRICE(adj) == COIN + CDiv(COIN * adj, 100)
RGP_POPULATION_LIMIT(adj) == 4 + adj
RGP_POPULATION_TARGET(nHeight) == 3

---------------------------------------------------------------------------
(* Values of the state.                                                    *)

NullHash == 0
EmptyMap == [x \in {} |-> 0]
NoPlayer == 0
NoHolder == [player |-> NoPlayer, index |-> -1]

\* Text of a message field that holds a decimal number: its integer part and
\* its first two decimals; ok is FALSE for a text that is not a number
NoText == [ok |-> FALSE, units |-> 0, cents |-> 0]
Text(units, cents) == [ok |-> TRUE, units |-> units, cents |-> cents]

\* ParseMoney(str, nRet): the value of nRet afterwards
ParseMoney(str, nRet) ==
    IF str.ok /\ str.units >= 0 /\ str.cents >= 0 /\ str.cents < 100
    THEN str.units * COIN + CDiv(str.cents * COIN, 100)
    ELSE nRet

\* CharacterState() of a freshly default-constructed character
NewCharacter ==
    [coord |-> <<0, 0>>, from |-> <<0, 0>>, dir |-> 0, waypoints |-> <<>>,
     loot |-> 0, stay_in_spawn_area |-> 0,
     ai_npc_role |-> 0, ai_state |-> {}, ai_state2 |-> {}, ai_state3 |-> {},
     rpg_slot_armor |-> 0, rpg_slot_spell |-> 0, ai_slot_amulet |-> 0, ai_slot_ring |-> 0,
     rpg_rations |-> 0, rpg_survival_points |-> 0,
     aux_spawn_block |-> 0, aux_stasis_block |-> 0, aux_last_sale_block |-> 0,
     ai_reserve64_1 |-> 0, ai_regen_timer |-> 0, ai_idle_time |-> 0]

\* PlayerState() of a freshly default-constructed player
NewPlayer ==
    [color |-> 255, lockedCoins |-> 0, value |-> -1, remainingLife |-> -1,
     address |-> 0, characters |-> EmptyMap, next_character_index |-> 0, dlevel |-> 0,
     msg_request |-> NoText, msg_request_block |-> 0, msg_fee |-> NoText, msg_comment |-> "",
     msg_vote |-> NoText, msg_vote_block |-> 0, msg_dlevel |-> NoText, msg_dlevel_block |-> 0,
     coins_request |-> 0, coins_fee |-> 0, coins_vote |-> 0]

\* the ring of SPAWN_AREA_LENGTH tiles along the border at each corner
OriginalBankTiles ==
    UNION {{<<0, d>>, <<d, 0>>, <<MAP_WIDTH - 1, d>>, <<d, MAP_HEIGHT - 1>>,
            <<0, MAP_HEIGHT - d - 1>>, <<MAP_WIDTH - d - 1, 0>>,
            <<MAP_WIDTH - 1, MAP_HEIGHT - d - 1>>, <<MAP_WIDTH - d - 1, MAP_HEIGHT - 1>>}
           : d \in 0..(SPAWN_AREA_LENGTH - 1)}

SetOriginalBanks == [c \in OriginalBankTiles |-> 0]

\* GameState::GameState
ConstructedState ==
    [nHeight |-> -1, nDisasterHeight |-> -1, hashBlock |-> NullHash,
     players |-> EmptyMap, loot |-> EmptyMap, hearts |-> {}, banks |-> SetOriginalBanks,
     crownPos |-> CROWN_START, crownHolder |-> NoHolder, gameFund |-> 0,
     dao_BestFee |-> 0, dao_BestFeeFinal |-> 0, dao_BestRequest |-> 0,
     dao_BestRequestFinal |-> 0, dao_BestName |-> NoPlayer, dao_BestNameFinal |-> NoPlayer,
     dao_BestComment |-> "", dao_BestCommentFinal |-> "",
     dao_BountyPreviousWeek |-> 0, dao_NamePreviousWeek |-> NoPlayer,
     dao_AdjustUpkeep |-> 0, dao_AdjustPopulationLimit |-> 0, dao_MinVersion |-> 2020500,
     dcpoint_height1 |-> 0, dcpoint_height2 |-> 0,
     dcpoint_hash1 |-> NullHash, dcpoint_hash2 |-> NullHash,
     dao_DlevelMax |-> 0, dao_IntervalMonsterApocalypse |-> 0]

\* StepResult()
NewStepResult == [killedPlayers |-> {}, killedBy |-> EmptyMap, bounties |-> <<>>, nTaxAmount |-> 0]

---------------------------------------------------------------------------
(* Iteration in the order of the C++ containers.                           *)

\* left fold of Op over the sequence seq
FoldSeq(Op(_, _), base, seq) ==
    LET RECURSIVE Range(_, _, _)
        \* the fold of seq[lo..hi] onto b: the first half is computed before
        \* the second half starts
        Range(b, lo, hi) ==
            IF lo > hi THEN b
            ELSE IF lo = hi THEN Op(b, seq[lo])
            ELSE LET first == Range(b, lo, (lo + hi) \div 2)
                 IN IF first = first THEN Range(first, (lo + hi) \div 2 + 1, hi) ELSE b
    IN Range(base, 1, Len(seq))

RECURSIVE SortInts(_)
\* the elements of a set of integers in ascending order (std::map / std::set order)
SortInts(S) ==
    IF S = {} THEN <<>>
    ELSE LET m == CHOOSE x \in S : \A y \in S : x <= y
         IN <<m>> \o SortInts(S \ {m})

RECURSIVE SortCoords(_)
\* the elements of a set of coordinates in Coord::operator< order
SortCoords(S) ==
    IF S = {} THEN <<>>
    ELSE LET m == CHOOSE c \in S : \A d \in S : c = d \/ CoordLess(c, d)
         IN <<m>> \o SortCoords(S \ {m})

\* the keys <<player, index>> of all characters, players first, then indices
CharKeys(s) ==
    FoldSeq(LAMBDA acc, p :
                acc \o [k \in 1..Cardinality(DOMAIN s.players[p].characters) |->
                           <<p, SortInts(DOMAIN s.players[p].characters)[k]>>],
            <<>>, SortInts(DOMAIN s.players))

HasChar(s, k) == k[1] \in DOMAIN s.players /\ k[2] \in DOMAIN s.players[k[1]].characters
GetChar(s, k) == s.players[k[1]].characters[k[2]]
SetChar(s, k, ch) == [s EXCEPT !.players[k[1]].characters[k[2]] = ch]

\* std::map::erase / insert on the functions that model maps
MapErase(m, k) == [x \in (DOMAIN m) \ {k} |-> m[x]]
MapPut(m, k, v) == [x \in (DOMAIN m) \cup {k} |-> IF x = k THEN v ELSE m[x]]

Sum(f) == FoldSeq(LAMBDA acc, k : acc + f[k], 0,
                  LET RECURSIVE Enum(_)
                      Enum(S) == IF S = {} THEN <<>>
                                 ELSE LET e == CHOOSE x \in S : TRUE IN <<e>> \o Enum(S \ {e})
                  IN Enum(DOMAIN f))

---------------------------------------------------------------------------
(* Random numbers.                                                         *)

\* GetIntRnd(n) and GetIntRnd(lo, hi) on the stream state rnd; the stream
\* state after the draw is RndAdvance(rnd)
GetIntRnd(rnd, n) == RndValue(rnd, n)
GetIntRnd2(rnd, lo, hi) == lo + RndValue(rnd, hi - lo + 1)

---------------------------------------------------------------------------
(* Fork-dependent policies.                                                *)

StateForkInEffect(s, fork) == ForkInEffect(fork, s.nHeight)

\* the death on the banks is never disabled
MaxStayNeverDisabled(s) ==
    IF StateForkInEffect(s, FORK_LIFESTEAL) THEN 2 ELSE STATE_MAX_STAY_IN_SPAWN_AREA

MaxStayOnBank(s) ==
    IF StateForkInEffect(s, FORK_LIFESTEAL) THEN 2
    ELSE IF StateForkInEffect(s, FORK_CARRYINGCAP) /\ ~StateForkInEffect(s, FORK_LESSHEARTS)
         THEN -1
         ELSE 30

GetNameCoinAmount(nHeight) ==
    IF nHeight > 30000 THEN 20 * COIN
    ELSE IF nHeight > 20000 THEN 30 * COIN
    ELSE IF nHeight > 10000 THEN 50 * COIN
    ELSE 100 * COIN

\* KilledByInfo with reason in {"KILLED_DESTRUCT", "KILLED_SPAWN", "KILLED_POISON"}
\* every death is taxed
AlwaysDeathTax(reason) == TRUE

HasDeathTax(reason) == reason # "KILLED_SPAWN"

DropCoins(s, reason, victim) ==
    IF ~StateForkInEffect(s, FORK_LESSHEARTS) THEN TRUE
    ELSE IF victim.remainingLife >= 0 THEN FALSE
    ELSE TRUE

CanRefund(s, reason, victim) ==
    IF ~StateForkInEffect(s, FORK_LESSHEARTS) THEN FALSE
    ELSE CASE reason = "KILLED_SPAWN" ->
                  IF ~StateForkInEffect(s, FORK_LIFESTEAL) /\ victim.remainingLife >= 0
                  THEN FALSE ELSE TRUE
           [] reason = "KILLED_POISON" -> StateForkInEffect(s, FORK_LIFESTEAL)
           [] OTHER -> FALSE

GetNumInitialCharacters(s) == IF StateForkInEffect(s, FORK_POISON) THEN 1 ELSE 3

---------------------------------------------------------------------------
(* GameState helpers.                                                      *)

\* GameState::AddLoot
AddLoot(s, coord, nAmount) ==
    IF nAmount = 0 THEN s
    ELSE IF coord \in DOMAIN s.loot
         THEN IF s.loot[coord] + nAmount = 0
              THEN [s EXCEPT !.loot = MapErase(s.loot, coord)]
              ELSE [s EXCEPT !.loot[coord] = @ + nAmount]
         ELSE [s EXCEPT !.loot = MapPut(s.loot, coord, nAmount)]

\* GameState::GetCoinsOnMap
GetCoinsOnMap(s) ==
    Sum(s.loot)
    + Sum([p \in DOMAIN s.players |-> s.players[p].value])
    + Sum([p \in DOMAIN s.players |->
              Sum([i \in DOMAIN s.players[p].characters |-> s.players[p].characters[i].loot])])

\* GameState::IsBank (asserts that the set of banks is not empty)
IsBank(s, c) == c \in DOMAIN s.banks

\* a player that can always spawn
CanAlwaysSpawn(pl) == TRUE

\* PlayerState::CanSpawnCharacter
CanSpawnCharacter(pl) ==
    Cardinality(DOMAIN pl.characters) < MAX_CHARACTERS_PER_PLAYER
    /\ pl.next_character_index < MAX_CHARACTERS_PER_PLAYER_TOTAL

\* tiles flagged SPAWNMAPFLAG_PLAYER / SPAWNMAPFLAG_BANK in the spawn map
TsPlayerTiles == {<<x, y>> : x \in 30..33, y \in 30..33}
TsBankLow == 120
TsBankHigh == 129
TsBankSide == TsBankHigh - TsBankLow + 1
IsTsBankTile(c) == c[1] >= TsBankLow /\ c[1] <= TsBankHigh /\ c[2] >= TsBankLow /\ c[2] <= TsBankHigh

RECURSIVE NthFree(_, _, _)
\* the tile with 0-based position k in the sorted walkable tiles from which
\* the tiles of excl have been erased: cand is the current candidate position
\* in the order of the whole grid
NthFree(k, excl, cand) ==
    LET skipped == Cardinality({c \in excl \cup Obstacles : TileIndex(c) <= cand})
    IN IF k + skipped = cand THEN TileAt(cand) ELSE NthFree(k, excl, k + skipped)

\* walkableTiles[k]
WalkableTile(k) == NthFree(k, {}, k)
NumWalkableTiles == MAP_WIDTH * MAP_HEIGHT - Cardinality(Obstacles)

GetDirection(c1, c2) ==
    LET dx == c2[1] - c1[1]
        dy == c2[2] - c1[2]
        sx == IF dx < 0 THEN -1 ELSE IF dx > 0 THEN 1 ELSE 0
        sy == IF dy < 0 THEN -1 ELSE IF dy > 0 THEN 1 ELSE 0
    IN (1 - sy) * 3 + sx + 2

\* CharacterState::StopMoving
StopMoving(ch) == [ch EXCEPT !.from = ch.coord, !.waypoints = <<>>]

\* CharacterState::Spawn; the result holds the character and the stream state
Spawn(ch0, s, color, rnd) ==
    IF StateForkInEffect(s, FORK_TIMESAVE) \/ StateForkInEffect(s, FORK_LIFESTEAL)
    THEN LET pos == IF StateForkInEffect(s, FORK_TIMESAVE)
                    THEN GetIntRnd(rnd, Cardinality(TsPlayerTiles))
                    ELSE GetIntRnd(rnd, NumWalkableTiles)
             c == IF StateForkInEffect(s, FORK_TIMESAVE)
                  THEN SortCoords(TsPlayerTiles)[pos + 1]
                  ELSE WalkableTile(pos)
             rnd1 == RndAdvance(rnd)
             d == GetIntRnd2(rnd1, 1, 8)
         IN [ch |-> StopMoving([ch0 EXCEPT !.coord = c, !.dir = IF d >= 5 THEN d + 1 ELSE d]),
             rnd |-> RndAdvance(rnd1)]
    ELSE LET pos == GetIntRnd(rnd, 2 * SPAWN_AREA_LENGTH - 1)
             x == IF pos < SPAWN_AREA_LENGTH THEN pos ELSE 0
             y == IF pos < SPAWN_AREA_LENGTH THEN 0 ELSE pos - SPAWN_AREA_LENGTH
             c == CASE color = 0 -> <<x, y>>
                    [] color = 1 -> <<MAP_WIDTH - 1 - x, y>>
                    [] color = 2 -> <<MAP_WIDTH - 1 - x, MAP_HEIGHT - 1 - y>>
                    [] OTHER -> <<x, MAP_HEIGHT - 1 - y>>
             d == IF c[1] = 0
                  THEN (IF c[2] = 0 THEN 3 ELSE IF c[2] = MAP_HEIGHT - 1 THEN 9 ELSE 6)
                  ELSE IF c[1] = MAP_WIDTH - 1
                  THEN (IF c[2] = 0 THEN 1 ELSE IF c[2] = MAP_HEIGHT - 1 THEN 7 ELSE 4)
                  ELSE IF c[2] = 0 THEN 2
                  ELSE IF c[2] = MAP_HEIGHT - 1 THEN 8 ELSE ch0.dir
         IN [ch |-> StopMoving([ch0 EXCEPT !.coord = c, !.dir = d]), rnd |-> RndAdvance(rnd)]

\* SpawnCharacter: the part that follows sp
SpawnCharacter_sp(s, p, pl, sp) ==
    [s |-> [s EXCEPT !.players[p].characters = MapPut(pl.characters, pl.next_character_index, sp.ch),
                     !.players[p].next_character_index = @ + 1],
     rnd |-> sp.rnd]

\* PlayerState::SpawnCharacter applied to player p of state s
SpawnCharacter(s, p, rnd) ==
    LET pl == s.players[p]
    IN SpawnCharacter_sp(s, p, pl, Spawn(NewCharacter, s, pl.color, rnd))

\* StepResult::KillPlayer
KillPlayer(res, victim, reason) ==
    [res EXCEPT !.killedPlayers = @ \cup {victim},
                !.killedBy = IF victim \in DOMAIN @ THEN @ ELSE MapPut(@, victim, reason)]

---------------------------------------------------------------------------
(* File-scope caches of state.cpp.                                         *)

RPG_PLAYERMAP_MAXCOUNT == 4
NpcRoles == 0..MONSTER_REDHEAD
Colors == 0..(STATE_NUM_TEAM_COLORS - 1)

\* values of the file-scope variables when the process starts
InitialGlobals ==
    [Cache_min_version |-> 0, Cache_adjusted_ration_price |-> 0,
     Cache_adjusted_population_limit |-> 0,
     Cache_gameround_duration |-> MIN_GAMEROUND_DURATION,
     Cache_timeslot_duration |-> MIN_GAMEROUND_DURATION,
     nCalculatedActiveDlevel |-> 0,
     AI_rng_seed_hashblock |-> NullHash,
     Gamecache_dyncheckpointheight1 |-> 0, Gamecache_dyncheckpointheight2 |-> 0,
     Gamecache_dyncheckpointhash1 |-> NullHash, Gamecache_dyncheckpointhash2 |-> NullHash,
     Merchant_exists |-> {}, Merchant_pos |-> EmptyMap,
     Merchant_sats_received |-> [nm \in 1..(NUM_MERCHANTS - 1) |-> 0],
     Merchant_last_sale |-> [nm \in 1..(NUM_MERCHANTS - 1) |-> 0],
     Rpg_TotalPopulationCount_global |-> 0, Rpg_TotalPopulationCount |-> 0,
     Rpg_PopulationCount |-> [np \in NpcRoles |-> 0],
     Rpg_WeightedPopulationCount |-> [np \in NpcRoles |-> 0],
     Rpg_TeamBalanceCount |-> [ic \in Colors |-> 0],
     Rpg_MissingMerchantPerColor |-> [ic \in Colors |-> 0],
     Rpg_MissingMerchantCount |-> 0,
     Rpg_Champion_BestSP |-> [ic \in Colors |-> 0],
     Rpg_Champion_BestCoinAmount |-> [ic \in Colors |-> 0],
     Rpg_StrongestTeam |-> 0, Rpg_WeakestTeam |-> 0,
     Rpg_monsters_weaker_than_players |-> FALSE, Rpg_need_monsters_badly |-> FALSE,
     Rpg_hearts_spawn |-> FALSE,
     AI_playermap |-> EmptyMap, Damageflagmap |-> {},
     Huntermsg_destruct |-> <<>>, Huntermsg_pay |-> <<>>,
     Cache_NPC_bounty_name |-> NoPlayer, Cache_NPC_bounty_loot_available |-> 0,
     Cache_NPC_bounty_loot_paid |-> 0]

\* Pass0_Character: the part that follows g3
Pass0_Character_g3(gg, ch, g3) ==
    IF ~IsInsideMap(ch.coord[1], ch.coord[2]) THEN gg ELSE g3

\* Pass0_Character: the part that follows old
Pass0_Character_old(gg, ch, tmp_color, tmp_score, g2, combatant, key, old) ==
    Pass0_Character_g3(gg, ch,
                       IF combatant
                       THEN [g2 EXCEPT !.Rpg_TeamBalanceCount[tmp_color] = @ + tmp_score,
                                       !.AI_playermap =
                                           IF "STASIS" \notin ch.ai_state2
                                              /\ old < tmp_score * RPG_PLAYERMAP_MAXCOUNT
                                           THEN MapPut(@, key, old + tmp_score) ELSE @]
                       ELSE g2)

\* Pass0_Character: the part that follows g2
Pass0_Character_g2(gg, ch, tmp_m, tmp_color, tmp_score, active, g2) ==
    LET combatant == ~NPCROLE_IS_MERCHANT(tmp_m) /\ active /\ tmp_color \in Colors
        key == <<ch.coord[1], ch.coord[2], tmp_color>>
    IN Pass0_Character_old(gg, ch, tmp_color, tmp_score, g2, combatant, key,
                           IF key \in DOMAIN g2.AI_playermap THEN g2.AI_playermap[key] ELSE 0)

\* Pass0_Character: the part that follows g1
Pass0_Character_g1(gg, k, ch, tmp_m, tmp_color, tmp_score, active, g1) ==
    LET richer == tmp_m >= MERCH_NORMAL_FIRST /\ ch.loot > g1.Cache_NPC_bounty_loot_available
    IN Pass0_Character_g2(gg, ch, tmp_m, tmp_color, tmp_score, active,
                          IF NPCROLE_IS_MERCHANT(tmp_m)
                          THEN [g1 EXCEPT !.Merchant_exists = @ \cup {tmp_m},
                                          !.Merchant_pos = MapPut(@, tmp_m, ch.coord),
                                          !.Merchant_last_sale[tmp_m] = ch.aux_last_sale_block,
                                          !.Cache_NPC_bounty_name = IF richer THEN k[1] ELSE @,
                                          !.Cache_NPC_bounty_loot_available = IF richer THEN ch.loot ELSE @]
                          ELSE g1)

\* a loop body that leaves the characters in stasis out of the global count
Pass0_CharacterAwake(s, gg, k) ==
    LET pl == s.players[k[1]]
        ch == GetChar(s, k)
        tmp_m == ch.ai_npc_role
        tmp_color == pl.color
        tmp_clevel == IF ch.rpg_slot_spell > 0 THEN RPG_CLEVEL_FROM_LOOT(ch.loot) ELSE 1
        tmp_score == RPG_SCORE_FROM_CLEVEL(tmp_clevel)
        active == pl.dlevel = gg.nCalculatedActiveDlevel
        counted == active /\ tmp_m \in NpcRoles /\ "STASIS_NOUPKEEP" \notin ch.ai_state3
    IN Pass0_Character_g1(gg, k, ch, tmp_m, tmp_color, tmp_score, active,
                          [gg EXCEPT !.Rpg_TotalPopulationCount_global =
                                         IF "STASIS" \in ch.ai_state2 THEN @ ELSE @ + 1,
                                     !.Rpg_TotalPopulationCount = IF active THEN @ + 1 ELSE @,
                                     !.Rpg_PopulationCount[tmp_m] = IF counted THEN @ + 1 ELSE @,
                                     !.Rpg_WeightedPopulationCount[tmp_m] = IF counted THEN @ + tmp_score ELSE @])

\* the loop body of Pass0_CacheDataForGame for the character with key k
Pass0_Character(s, gg, k) ==
    LET pl == s.players[k[1]]
        ch == GetChar(s, k)
        tmp_m == ch.ai_npc_role
        tmp_color == pl.color
        tmp_clevel == IF ch.rpg_slot_spell > 0 THEN RPG_CLEVEL_FROM_LOOT(ch.loot) ELSE 1
        tmp_score == RPG_SCORE_FROM_CLEVEL(tmp_clevel)
        active == pl.dlevel = gg.nCalculatedActiveDlevel
        counted == active /\ tmp_m \in NpcRoles /\ "STASIS_NOUPKEEP" \notin ch.ai_state3
    IN Pass0_Character_g1(gg, k, ch, tmp_m, tmp_color, tmp_score, active,
                          [gg EXCEPT !.Rpg_TotalPopulationCount_global = @ + 1,
                                     !.Rpg_TotalPopulationCount = IF active THEN @ + 1 ELSE @,
                                     !.Rpg_PopulationCount[tmp_m] = IF counted THEN @ + 1 ELSE @,
                                     !.Rpg_WeightedPopulationCount[tmp_m] = IF counted THEN @ + tmp_score ELSE @])

\* the merchants that Pass0_CacheDataForGame counts as missing
MissingMerchants(s, gg) ==
    {nm \in 1..MERCH_NORMAL_LAST :
        nm \notin gg.Merchant_exists /\ Merchant_chronon(nm) < s.nHeight
        /\ Merchant_base_x[nm] > 0 /\ Merchant_base_y[nm] > 0 /\ Merchant_color[nm] \in Colors}

\* Pass0_CacheDataForGame: the part that follows g1
Pass0_CacheDataForGame_g1(s, g1) ==
    LET pop == g1.Rpg_PopulationCount
        wpop == g1.Rpg_WeightedPopulationCount
        Rpg_MonsterCount == pop[MONSTER_REAPER] + pop[MONSTER_SPITTER] + pop[MONSTER_REDHEAD]
        Rpg_WeightedMonsterCount == wpop[MONSTER_REAPER] + wpop[MONSTER_SPITTER] + wpop[MONSTER_REDHEAD]
        missing == MissingMerchants(s, g1)
        bal == g1.Rpg_TeamBalanceCount
        strongest == {ic \in Colors : \A ic2 \in Colors : bal[ic2] <= bal[ic]}
        weakest == {ic \in Colors : \A ic2 \in Colors : bal[ic2] >= bal[ic]}
        load1 == g1.Gamecache_dyncheckpointheight1 = 0 /\ s.dcpoint_height1 # 0
        load2 == g1.Gamecache_dyncheckpointheight2 = 0 /\ s.dcpoint_height2 # 0
    IN [g1 EXCEPT
          !.Rpg_monsters_weaker_than_players =
              (Rpg_MonsterCount < pop[0]) \/ (Rpg_WeightedMonsterCount < wpop[0]),
          !.Rpg_need_monsters_badly =
              (Rpg_MonsterCount * 2 < pop[0]) \/ (Rpg_WeightedMonsterCount * 2 < wpop[0]),
          \* evaluated while Rpg_MissingMerchantCount still holds the 0 it was cleared to
          !.Rpg_hearts_spawn =
              ((g1.Rpg_TotalPopulationCount < RGP_POPULATION_TARGET(s.nHeight))
                  \/ (s.nHeight % 10 = 0)) /\ (g1.Rpg_MissingMerchantCount = 0),
          !.Rpg_MissingMerchantPerColor =
              [ic \in Colors |->
                  LET mine == {nm \in missing : Merchant_color[nm] = ic}
                  IN IF mine = {} THEN 0 ELSE CHOOSE nm \in mine : \A o \in mine : nm <= o],
          !.Rpg_MissingMerchantCount = Cardinality(missing),
          !.Rpg_StrongestTeam = CHOOSE ic \in strongest : \A o \in strongest : o <= ic,
          !.Rpg_WeakestTeam = CHOOSE ic \in weakest : \A o \in weakest : o <= ic,
          !.Gamecache_dyncheckpointheight1 = IF load1 THEN s.dcpoint_height1 ELSE @,
          !.Gamecache_dyncheckpointhash1 = IF load1 THEN s.dcpoint_hash1 ELSE @,
          !.Gamecache_dyncheckpointheight2 = IF load2 THEN s.dcpoint_height2 ELSE @,
          !.Gamecache_dyncheckpointhash2 = IF load2 THEN s.dcpoint_hash2 ELSE @]

\* GameState::Pass0_CacheDataForGame: the caches as they are afterwards
Pass0_CacheDataForGame(s, gIn) ==
    LET price0 == RPG_ADJUSTED_RATION_PRICE(s.dao_AdjustUpkeep)
        g0 == [gIn EXCEPT
                 !.AI_playermap = EmptyMap, !.Damageflagmap = {},
                 !.Merchant_exists = {}, !.Merchant_pos = EmptyMap,
                 !.Merchant_sats_received = [nm \in 1..(NUM_MERCHANTS - 1) |-> 0],
                 !.Merchant_last_sale = [nm \in 1..(NUM_MERCHANTS - 1) |-> 0],
                 !.Rpg_TotalPopulationCount_global = 0, !.Rpg_TotalPopulationCount = 0,
                 !.Rpg_PopulationCount = [np \in NpcRoles |-> 0],
                 !.Rpg_WeightedPopulationCount = [np \in NpcRoles |-> 0],
                 !.Rpg_MissingMerchantPerColor = [ic \in Colors |-> 0],
                 !.Rpg_TeamBalanceCount = [ic \in Colors |-> 0],
                 !.Rpg_MissingMerchantCount = 0,
                 !.Rpg_Champion_BestSP = [ic \in Colors |-> 0],
                 !.Rpg_Champion_BestCoinAmount = [ic \in Colors |-> 0],
                 !.Huntermsg_pay = <<>>, !.Huntermsg_destruct = <<>>,
                 !.Cache_NPC_bounty_name = NoPlayer, !.Cache_NPC_bounty_loot_available = 0,
                 !.Cache_adjusted_ration_price =
                     IF gIn.Cache_min_version >= 2020700
                     THEN CDiv(price0 * gIn.Cache_timeslot_duration, 2000) ELSE price0,
                 !.Cache_adjusted_population_limit = RGP_POPULATION_LIMIT(s.dao_AdjustPopulationLimit),
                 !.Cache_min_version = s.dao_MinVersion]
    IN Pass0_CacheDataForGame_g1(s,
                                 FoldSeq(LAMBDA acc, k : Pass0_Character(s, acc, k), g0, CharKeys(s)))

---------------------------------------------------------------------------
(* Pass 1: bounties and voting.                                            *)

\* a first loop in which every request that is one block old becomes the best
Pass1_ParseLastRequest(w, p) ==
    LET pl == w.s.players[p]
    IN IF pl.msg_request_block = w.s.nHeight - 1
       THEN [w EXCEPT !.s.dao_BestFee = ParseMoney(pl.msg_fee, 0),
                      !.s.dao_BestRequest = ParseMoney(pl.msg_request, 0),
                      !.s.dao_BestName = p, !.s.dao_BestComment = pl.msg_comment]
       ELSE w

\* first loop of Pass1_DAO for player p (requests and votes that are one block old)
Pass1_Parse(w, p) ==
    LET s == w.s
        pl == s.players[p]
        isReq == pl.msg_request_block = s.nHeight - 1
        req == IF isReq THEN ParseMoney(pl.msg_request, pl.coins_request) ELSE pl.coins_request
        parsedFee == ParseMoney(pl.msg_fee, pl.coins_fee)
        fee == IF isReq /\ req >= COIN
               THEN (IF parsedFee < CDiv(req, 100) THEN CDiv(req, 100) ELSE parsedFee)
               ELSE pl.coins_fee
        vote == IF pl.msg_vote_block = s.nHeight - 1
                THEN ParseMoney(pl.msg_vote, pl.coins_vote) ELSE pl.coins_vote
        s1 == [s EXCEPT !.players[p].coins_request = req, !.players[p].coins_fee = fee,
                        !.players[p].coins_vote = vote]
        hasGeneral == 0 \in DOMAIN pl.characters
        ch == pl.characters[0]
        accepted == isReq /\ fee > s.dao_BestFee /\ hasGeneral
                    /\ ~(w.g.Cache_min_version >= 2020600 /\ ch.ai_npc_role # 0)
                    /\ ch.loot >= fee
    IN IF accepted
       THEN [w EXCEPT
               !.s = [s1 EXCEPT !.dao_BestFee = fee, !.dao_BestRequest = req,
                                !.dao_BestName = p, !.dao_BestComment = pl.msg_comment,
                                !.players[p].characters[0].loot = @ - fee,
                                !.players[p].characters[0].rpg_rations =
                                    IF w.g.Cache_adjusted_ration_price = 0 THEN @
                                    ELSE @ + CDiv(fee, w.g.Cache_adjusted_ration_price)],
               !.g.Merchant_sats_received[MERCH_INFO_DEVMODE] = @ + fee,
               !.fault = @ \/ w.g.Cache_adjusted_ration_price = 0]
       ELSE [w EXCEPT !.s = s1]

\* rations handed to a voting character when a voting round ends
Pass1_VoteRations(w, i) ==
    IF w.g.Cache_min_version < 2020700 THEN (IF i = 0 THEN 3 ELSE 2)
    ELSE IF w.g.Cache_gameround_duration > 5000 THEN (IF i = 0 THEN 1 ELSE 0)
    ELSE IF w.g.Cache_gameround_duration > 4000 THEN 1
    ELSE IF w.g.Cache_gameround_duration > 3000 THEN (IF i = 0 THEN 2 ELSE 1)
    ELSE IF w.g.Cache_gameround_duration > 2000 THEN 2
    ELSE (IF i = 0 THEN 3 ELSE 2)

\* second loop of Pass1_DAO for player p (weight of the vote, reward)
Pass1_Count(w, p, bountycycle_block, bountycycle_start) ==
    LET s == w.s
        pl == s.players[p]
        vote0 == IF pl.coins_vote > s.dao_BestRequestFinal THEN s.dao_BestRequestFinal
                 ELSE pl.coins_vote
        tmp_vote == IF vote0 < 0 THEN 0 ELSE vote0
        idx == DOMAIN pl.characters
        voters == {i \in idx : ~NPCROLE_IS_MERCHANT(pl.characters[i].ai_npc_role)
                               /\ ~NPCROLE_IS_MONSTER(pl.characters[i].ai_npc_role)}
        not_allowed_to_vote ==
            \E i \in idx : NPCROLE_IS_MERCHANT(pl.characters[i].ai_npc_role)
                           \/ (NPCROLE_IS_MONSTER(pl.characters[i].ai_npc_role) /\ i = 0)
        weight0 == Sum([i \in voters |-> pl.characters[i].loot
                                         + (IF i = 0 THEN pl.lockedCoins ELSE 0)])
        tmp_weight == IF not_allowed_to_vote THEN 0 ELSE weight0
        rewarded == {i \in voters : bountycycle_block = 0 /\ pl.characters[i].rpg_rations = 0
                                    /\ s.nHeight - pl.characters[i].aux_spawn_block
                                         > RPG_INTERVAL_BOUNTYCYCLE}
        s1 == [s EXCEPT !.players[p].characters =
                  [i \in idx |-> IF i \in rewarded
                                 THEN [pl.characters[i] EXCEPT
                                          !.rpg_rations = @ + Pass1_VoteRations(w, i)]
                                 ELSE pl.characters[i]]]
    IN IF pl.msg_vote_block > bountycycle_start
       THEN [w EXCEPT
               !.s = s1,
               !.total = IF tmp_weight > 0 THEN @ + tmp_weight ELSE @,
               !.zero = IF tmp_weight > 0 /\ tmp_vote = 0 THEN @ + tmp_weight ELSE @,
               !.full = IF tmp_weight > 0 /\ tmp_vote # 0 /\ tmp_vote = s.dao_BestRequestFinal
                        THEN @ + tmp_weight ELSE @,
               !.part = IF tmp_weight > 0 /\ tmp_vote # 0 /\ tmp_vote # s.dao_BestRequestFinal
                        THEN @ + tmp_weight ELSE @,
               !.vpart = IF tmp_weight > 0 /\ tmp_vote # 0 /\ tmp_vote # s.dao_BestRequestFinal
                         THEN @ + CDiv(tmp_vote, COIN) * CDiv(tmp_weight, COIN) ELSE @]
       ELSE w

\* effect of the comment of an approved proposal on the parameters of the game
Pass1_ApplyComment(s) ==
    LET c == s.dao_BestCommentFinal
    IN CASE c = "Upkeep shall be higher!" ->
                [s EXCEPT !.dao_AdjustUpkeep = IF @ > 0 THEN @ - 1 ELSE @]
         [] c = "Upkeep shall be lower!" -> [s EXCEPT !.dao_AdjustUpkeep = @ + 1]
         [] c = "Increase the population limit!" ->
                [s EXCEPT !.dao_AdjustPopulationLimit = @ + 10000]
         [] c = "Reduce the population limit!" ->
                [s EXCEPT !.dao_AdjustPopulationLimit = @ - 10000]
         [] c = "All nodes must upgrade!" -> [s EXCEPT !.dao_MinVersion = @ + 100]
         [] c = "Spawn a new dungeon level!" /\ s.dao_MinVersion >= 2020600 ->
                [s EXCEPT !.dao_DlevelMax = IF @ < NUM_DUNGEON_LEVELS - 1 THEN @ + 1 ELSE @]
         [] c = "Erase a dungeon level!" ->
                [s EXCEPT !.dao_DlevelMax = IF @ > 0 THEN @ - 1 ELSE @]
         [] c = "Increase the number of blocks per game round!" ->
                [s EXCEPT !.dao_IntervalMonsterApocalypse =
                              IF s.nHeight % @ = 0 THEN @ + 1000 ELSE @]
         [] c = "Reduce the number of blocks per game round!" ->
                [s EXCEPT !.dao_IntervalMonsterApocalypse =
                              IF s.nHeight % @ = 0 /\ @ >= 2000 THEN @ - 1000 ELSE @]
         [] OTHER -> s

\* Pass1_DAO: the part that follows g3
Pass1_DAO_g3(sIn, gIn, bountycycle_block, w0, w2, s2, divisor, byPart, s3, g3) ==
    LET s4 == IF s3.dao_BestFee > 0
              THEN [s3 EXCEPT !.dao_BestFeeFinal = s3.dao_BestFee,
                              !.dao_BestRequestFinal = s3.dao_BestRequest,
                              !.dao_BestNameFinal = s3.dao_BestName,
                              !.dao_BestCommentFinal = s3.dao_BestComment]
              ELSE [s3 EXCEPT !.dao_BestFeeFinal = 0, !.dao_BestRequestFinal = 0,
                              !.dao_BestNameFinal = NoPlayer, !.dao_BestCommentFinal = ""]
        s5 == [s4 EXCEPT !.dao_BestFee = 0, !.dao_BestRequest = 0,
                         !.dao_BestName = NoPlayer, !.dao_BestComment = ""]
    IN IF MERCH_INFO_DEVMODE \notin gIn.Merchant_exists
       THEN [s |-> sIn, g |-> w0.g, fault |-> FALSE]
       ELSE IF bountycycle_block = 0
            THEN [s |-> s5, g |-> g3, fault |-> w2.fault \/ (byPart /\ divisor = 0)]
            ELSE [s |-> s2, g |-> w2.g, fault |-> w2.fault \/ (byPart /\ divisor = 0)]

\* Pass1_DAO: the part that follows s3
Pass1_DAO_s3(sIn, gIn, bountycycle_block, w0, w2, s2, divisor, byPart, Cache_actual_bounty,
             approved, s3) ==
    Pass1_DAO_g3(sIn, gIn, bountycycle_block, w0, w2, s2, divisor, byPart, s3,
                 IF approved
                 THEN [w2.g EXCEPT
                         !.Huntermsg_pay = Append(@, [value |-> Cache_actual_bounty,
                                                      self |-> w2.g.Cache_NPC_bounty_name,
                                                      other |-> s2.dao_BestNameFinal]),
                         !.Cache_NPC_bounty_loot_paid = Cache_actual_bounty]
                 ELSE w2.g)

\* Pass1_DAO: the part that follows w2
Pass1_DAO_w2(sIn, gIn, bountycycle_block, w0, w2) ==
    LET s2 == w2.s
        divisor == CDiv(w2.part + w2.full + w2.zero, COIN)
        byPart == ~(w2.zero > CDiv(w2.total, 2)) /\ ~(w2.full > CDiv(w2.total, 2)) /\ w2.part > 0
        Cache_actual_bounty ==
            IF w2.zero > CDiv(w2.total, 2) THEN 0
            ELSE IF w2.full > CDiv(w2.total, 2) THEN s2.dao_BestRequestFinal
            ELSE IF w2.part > 0 /\ divisor # 0
            THEN CDiv(w2.vpart + CDiv(s2.dao_BestRequestFinal, COIN) * CDiv(w2.full, COIN),
                      divisor) * COIN
            ELSE 0
        cleared == [s2 EXCEPT !.dao_NamePreviousWeek = NoPlayer, !.dao_BountyPreviousWeek = 0]
        approved == Cache_actual_bounty > 0
                    /\ w2.g.Cache_NPC_bounty_loot_available >= Cache_actual_bounty
        paid == Pass1_ApplyComment([cleared EXCEPT
                                      !.dao_NamePreviousWeek = s2.dao_BestNameFinal,
                                      !.dao_BountyPreviousWeek = Cache_actual_bounty])
    IN Pass1_DAO_s3(sIn, gIn, bountycycle_block, w0, w2, s2, divisor, byPart, Cache_actual_bounty,
                    approved, IF approved THEN paid ELSE cleared)

\* Pass1_DAO: the part that follows w1
Pass1_DAO_w1(sIn, gIn, bountycycle_block, bountycycle_start, w0, order, w1) ==
    Pass1_DAO_w2(sIn, gIn, bountycycle_block, w0,
                 FoldSeq(LAMBDA acc, p : Pass1_Count(acc, p, bountycycle_block, bountycycle_start),
                         w1, order))

\* GameState::Pass1_DAO; fault is set when the code divides by zero
Pass1_DAO(sIn, gIn) ==
    LET bountycycle_block == sIn.nHeight % RPG_INTERVAL_BOUNTYCYCLE
        bountycycle_start == IF bountycycle_block = 0
                             THEN sIn.nHeight - RPG_INTERVAL_BOUNTYCYCLE
                             ELSE sIn.nHeight - bountycycle_block
        w0 == [s |-> sIn, g |-> [gIn EXCEPT !.Cache_NPC_bounty_loot_paid = 0], fault |-> FALSE,
               total |-> 0, full |-> 0, part |-> 0, zero |-> 0, vpart |-> 0]
        order == SortInts(DOMAIN sIn.players)
    IN Pass1_DAO_w1(sIn, gIn, bountycycle_block, bountycycle_start, w0, order,
                    IF bountycycle_block > 0
                    THEN FoldSeq(LAMBDA acc, p : Pass1_Parse(acc, p), w0, order)
                    ELSE w0)

---------------------------------------------------------------------------
(* Moves (move.cpp).                                                       *)

NoColor == 255

\* a move without any optional part
NewMove(player) ==
    [player |-> player, color |-> NoColor, newLocked |-> 0,
     waypoints |-> EmptyMap, destruct |-> {}, address |-> 0,
     msg_request |-> NoText, msg_fee |-> NoText, msg_comment |-> "",
     msg_vote |-> NoText, msg_dlevel |-> NoText,
     hasRequest |-> FALSE, hasVote |-> FALSE, hasDlevel |-> FALSE]

IsSpawn(m) == m.color # NoColor

\* MinimumGameFee of the move at height nHeight
MinimumGameFee(m, nHeight) ==
    IF IsSpawn(m)
    THEN (IF ForkInEffect(FORK_LIFESTEAL, nHeight)
          THEN GetNameCoinAmount(nHeight) + 5 * COIN
          ELSE GetNameCoinAmount(nHeight))
    ELSE IF ~ForkInEffect(FORK_POISON, nHeight) THEN 0
    ELSE IF ForkInEffect(FORK_LIFESTEAL, nHeight) THEN Cardinality(m.destruct) * COIN
    ELSE Cardinality(m.destruct) * 20 * COIN

\* Move::IsValid
IsValid(m, s) ==
    LET known == m.player \in DOMAIN s.players
        oldLocked == IF known THEN s.players[m.player].lockedCoins ELSE 0
    IN /\ known = ~IsSpawn(m)
       /\ m.newLocked - oldLocked >= MinimumGameFee(m, s.nHeight + 1)

\* Move::ApplyWaypoints
ApplyWaypoints(s, m) ==
    IF m.player \notin DOMAIN s.players THEN s
    ELSE LET pl == s.players[m.player]
             Upd(i) ==
                 LET ch == pl.characters[i]
                     wp == m.waypoints[i]
                     restart == ch.waypoints = <<>> \/ wp = <<>>
                                \/ ch.waypoints[Len(ch.waypoints)] # wp[Len(wp)]
                 IN [ch EXCEPT !.from = IF restart THEN ch.coord ELSE @, !.waypoints = wp]
         IN [s EXCEPT !.players[m.player].characters =
                [i \in DOMAIN pl.characters |->
                    IF i \in DOMAIN m.waypoints THEN Upd(i) ELSE pl.characters[i]]]

\* ApplySpawn: the part that follows again
ApplySpawn_again(s, m, spawnAll, again) ==
    IF m.player \in DOMAIN s.players THEN again ELSE spawnAll

\* ApplySpawn: the part that follows spawnAll
ApplySpawn_spawnAll(s, m, rnd, spawnAll) ==
    ApplySpawn_again(s, m, spawnAll,
                     IF CanSpawnCharacter(s.players[m.player])
                     THEN SpawnCharacter(s, m.player, rnd) ELSE [s |-> s, rnd |-> rnd])

\* Move::ApplySpawn; the result holds the state and the stream state
ApplySpawn(s, m, rnd) ==
    LET coinAmount == GetNameCoinAmount(s.nHeight)
        lifeSteal == StateForkInEffect(s, FORK_LIFESTEAL)
        pl == [NewPlayer EXCEPT !.color = m.color,
                                !.value = IF lifeSteal THEN coinAmount ELSE m.newLocked,
                                !.lockedCoins = m.newLocked]
        s0 == [s EXCEPT !.players = MapPut(@, m.player, pl),
                        !.gameFund = IF lifeSteal THEN @ + m.newLocked - coinAmount ELSE @]
        n == GetNumInitialCharacters(s)
    IN ApplySpawn_spawnAll(s, m, rnd,
                           FoldSeq(LAMBDA acc, i : SpawnCharacter(acc.s, m.player, acc.rnd),
                                   [s |-> s0, rnd |-> rnd], [i \in 1..n |-> i]))

\* Move::ApplyCommon
ApplyCommon(s, m) ==
    IF m.player \notin DOMAIN s.players THEN s
    ELSE [s EXCEPT
            !.players[m.player] =
                [@ EXCEPT
                   !.address = IF m.address # 0 THEN m.address ELSE @,
                   !.msg_request = IF m.hasRequest THEN m.msg_request ELSE @,
                   !.msg_fee = IF m.hasRequest THEN m.msg_fee ELSE @,
                   !.msg_comment = IF m.hasRequest THEN m.msg_comment ELSE @,
                   !.msg_request_block = IF m.hasRequest THEN s.nHeight ELSE @,
                   !.msg_vote = IF m.hasVote THEN m.msg_vote ELSE @,
                   !.msg_vote_block = IF m.hasVote THEN s.nHeight ELSE @,
                   !.msg_dlevel = IF m.hasDlevel THEN m.msg_dlevel ELSE @,
                   !.msg_dlevel_block = IF m.hasDlevel THEN s.nHeight ELSE @]]

---------------------------------------------------------------------------
(* Fees and attacks.                                                       *)

\* a loop that pays the locked coins of a spawn to the game fund as well
PayGameFeesOfSpawns(s, vMoves) ==
    FoldSeq(LAMBDA acc, m :
                LET newFee == IF IsSpawn(m) THEN m.newLocked
                              ELSE m.newLocked - acc.s.players[m.player].lockedCoins
                IN [s |-> [acc.s EXCEPT !.gameFund = @ + newFee,
                                        !.players = IF IsSpawn(m) THEN @
                                                    ELSE [@ EXCEPT ![m.player].lockedCoins = m.newLocked]],
                    moneyIn |-> acc.moneyIn + newFee],
            [s |-> s, moneyIn |-> 0], vMoves)

\* the loop of PerformStep that pays the game fees of the moves
PayGameFees(s, vMoves) ==
    FoldSeq(LAMBDA acc, m :
                IF ~IsSpawn(m)
                THEN LET newFee == m.newLocked - acc.s.players[m.player].lockedCoins
                     IN [s |-> [acc.s EXCEPT !.gameFund = @ + newFee,
                                             !.players[m.player].lockedCoins = m.newLocked],
                         moneyIn |-> acc.moneyIn + newFee]
                ELSE [acc EXCEPT !.moneyIn = @ + m.newLocked],
            [s |-> s, moneyIn |-> 0], vMoves)

\* CharactersOnTiles::ApplyAttacks: the destruct messages it records
ApplyAttacks(s, gg, vMoves) ==
    FoldSeq(LAMBDA acc, m :
                LET pl == s.players[m.player]
                    hit == SortInts(m.destruct \cap DOMAIN pl.characters)
                IN IF m.destruct = {} THEN acc
                   ELSE [acc EXCEPT !.Huntermsg_destruct =
                            @ \o [j \in 1..Len(hit) |-> <<m.player, hit[j]>>]],
            gg, vMoves)

---------------------------------------------------------------------------
(* Kills.                                                                  *)

IsOriginalSpawnArea(c) == IsInSpawnArea(c[1], c[2])

PushCoordOutOfSpawnArea(c) ==
    IF ~IsOriginalSpawnArea(c) THEN c
    ELSE IF c[1] = 0
         THEN (IF c[2] = 0 THEN <<c[1] + 1, c[2] + 1>>
               ELSE IF c[2] = MAP_HEIGHT - 1 THEN <<c[1] + 1, c[2] - 1>>
               ELSE <<c[1] + 1, c[2]>>)
    ELSE IF c[1] = MAP_WIDTH - 1
         THEN (IF c[2] = 0 THEN <<c[1] - 1, c[2] + 1>>
               ELSE IF c[2] = MAP_HEIGHT - 1 THEN <<c[1] - 1, c[2] - 1>>
               ELSE <<c[1] - 1, c[2]>>)
    ELSE IF c[2] = 0 THEN <<c[1], c[2] + 1>>
    ELSE IF c[2] = MAP_HEIGHT - 1 THEN <<c[1], c[2] - 1>>
    ELSE c

\* a bounty of the step result
CollectedBounty(player, index, nAmount, isRefund, address) ==
    [player |-> player, index |-> index, nAmount |-> nAmount, isRefund |-> isRefund,
     address |-> address]

\* GameState::HandleKilledLoot on w = [s, g, res, fault]
HandleKilledLoot(w, pId, chInd, reason) ==
    LET s == w.s
        victim == s.players[pId]
        ch == victim.characters[chInd]
        refunded == chInd = 0 /\ CanRefund(s, reason, victim)
        res1 == IF refunded
                THEN [w.res EXCEPT !.bounties =
                        Append(@, CollectedBounty(pId, chInd, victim.value, TRUE, victim.address))]
                ELSE w.res
        withValue == chInd = 0 /\ ~refunded
        nAmount0 == ch.loot + (IF withValue THEN victim.value ELSE 0)
        taxed == HasDeathTax(reason) /\ w.g.Cache_min_version < 2020700
        nTax == CDiv(nAmount0, 25)
        nAmount == IF taxed THEN nAmount0 - nTax ELSE nAmount0
        res2 == [res1 EXCEPT !.nTaxAmount = IF taxed THEN @ + nTax ELSE @]
        lootPos == IF ~StateForkInEffect(s, FORK_LIFESTEAL)
                   THEN PushCoordOutOfSpawnArea(ch.coord) ELSE ch.coord
        failed == victim.value < 0
                  \/ (withValue /\ StateForkInEffect(s, FORK_LIFESTEAL) /\ victim.value # 0)
                  \/ (StateForkInEffect(s, FORK_LESSHEARTS) /\ victim.remainingLife < -1)
    IN [w EXCEPT !.s = IF ~DropCoins(s, reason, victim) THEN [s EXCEPT !.gameFund = @ + nAmount]
                       ELSE AddLoot(s, lootPos, nAmount),
                 !.res = res2,
                 !.fault = @ \/ failed]

\* erase the characters of the set dead (keys <<player, index>>)
EraseCharacters(s, dead) ==
    [s EXCEPT !.players =
        [p \in DOMAIN s.players |->
            [s.players[p] EXCEPT !.characters =
                [i \in {j \in DOMAIN s.players[p].characters : <<p, j>> \notin dead} |->
                    s.players[p].characters[i]]]]]

\* stay_in_spawn_area after the fork FORK_TIMESAVE
CHARACTER_MODE_NORMAL == 6
CHARACTER_MODE_LOGOUT == 8
CHARACTER_MODE_SPECTATOR_BEGIN == 9
CharacterIsProtected(S) == S < CHARACTER_MODE_NORMAL \/ S > CHARACTER_MODE_LOGOUT
CharacterSpawnProtectionAlmostFinished(S) == S = CHARACTER_MODE_NORMAL - 1
CharacterInSpectatorMode(S) == S > CHARACTER_MODE_LOGOUT
CharacterNoLogout(S) == S # CHARACTER_MODE_LOGOUT /\ S < CHARACTER_MODE_SPECTATOR_BEGIN + 15

\* KillSpawnArea_Character: the part that follows kill
KillSpawnArea_Character_kill(w, k, s, ch, st, tsStay, maxStay, kill) ==
    LET Stay(v) == [w EXCEPT !.s = SetChar(s, k, [ch EXCEPT !.stay_in_spawn_area = v])]
    IN IF StateForkInEffect(s, FORK_TIMESAVE)
       THEN (IF CharacterNoLogout(tsStay) THEN Stay(tsStay)
             ELSE [kill EXCEPT !.s = SetChar(@, k, [GetChar(@, k) EXCEPT
                                                      !.stay_in_spawn_area = tsStay])])
       ELSE IF ~IsBank(s, ch.coord) THEN Stay(0)
       ELSE IF "STASIS" \in ch.ai_state2 THEN w
       ELSE IF st < maxStay \/ maxStay = -1 THEN Stay(st + 1)
       ELSE [kill EXCEPT !.s = SetChar(@, k, [GetChar(@, k) EXCEPT
                                                !.stay_in_spawn_area = st + 1])]

\* KillSpawnArea_Character: the part that follows tsStay
KillSpawnArea_Character_tsStay(w, k, s, ch, st, tsStay) ==
    LET maxStay == MaxStayOnBank(s)
    IN KillSpawnArea_Character_kill(w, k, s, ch, st, tsStay, maxStay,
                                    LET w1 == HandleKilledLoot(w, k[1], k[2], "KILLED_SPAWN")
                                    IN [w1 EXCEPT !.res = IF k[2] = 0 THEN KillPlayer(@, k[1], "KILLED_SPAWN") ELSE @,
                                                  !.dead = @ \cup {k}])

\* loop body of GameState::KillSpawnArea for character k; w.dead collects toErase
KillSpawnArea_Character(w, k) ==
    LET s == w.s
        ch == GetChar(s, k)
        st == ch.stay_in_spawn_area
    IN KillSpawnArea_Character_tsStay(w, k, s, ch, st,
                                      IF IsBank(s, ch.coord) THEN CHARACTER_MODE_LOGOUT
                                      ELSE IF ch.coord \in TsPlayerTiles
                                      THEN (IF CharacterSpawnProtectionAlmostFinished(st)
                                            THEN CHARACTER_MODE_SPECTATOR_BEGIN
                                            ELSE IF (s.nHeight % 500 < 490) \/ st > 0 THEN st + 1 ELSE st)
                                      ELSE IF CharacterIsProtected(st) THEN st + 1 ELSE st)

\* KillSpawnArea: the part that follows w1
KillSpawnArea_w1(w1) ==
    [s |-> EraseCharacters(w1.s, w1.dead), g |-> w1.g, res |-> w1.res, fault |-> w1.fault]

\* GameState::KillSpawnArea
KillSpawnArea(w) ==
    KillSpawnArea_w1(FoldSeq(LAMBDA acc, k : KillSpawnArea_Character(acc, k),
                             [s |-> w.s, g |-> w.g, res |-> w.res, fault |-> w.fault, dead |-> {}],
                             CharKeys(w.s)))

DeathFlags == {"DEATH_POISON", "DEATH_FIRE", "DEATH_DEATH", "DEATH_LIGHTNING"}

\* KillRangedAttacks_Character: the part that follows dropped
KillRangedAttacks_Character_dropped(w, k, s, pl, i, ch0, ch1, g1, idie, ilive, alive, g2, regen,
                                    dropped) ==
    IF "STASIS" \in ch0.ai_state2 THEN w
    ELSE IF NPCROLE_IS_MERCHANT(ch1.ai_npc_role) THEN [w EXCEPT !.s = SetChar(s, k, ch1), !.g = g1]
    ELSE IF ~idie THEN [w EXCEPT !.s = SetChar(s, k, regen), !.g = g1]
    ELSE IF ilive > 0 THEN [w EXCEPT !.s = SetChar(s, k, alive), !.g = g2]
    ELSE [w EXCEPT !.s = dropped, !.g = g1,
                   !.res = IF i = 0 THEN KillPlayer(@, k[1], "KILLED_POISON") ELSE @,
                   !.fault = @ \/ (i = 0 /\ pl.lockedCoins < 0),
                   !.dead = @ \cup {k}]

\* KillRangedAttacks_Character: the part that follows g2
KillRangedAttacks_Character_g2(w, k, s, pl, i, ch0, ch1, g1, idie, ilive, alive, g2) ==
        \* regeneration of a character that is not dying
    LET ticks == ~g1.Rpg_need_monsters_badly /\ ch1.ai_regen_timer > 0
        timer == IF (ch1.coord[1] % 2) + (ch1.coord[2] % 2) # 0
                 THEN ch1.ai_regen_timer - 1 ELSE ch1.ai_regen_timer
        regen == IF ~ticks THEN ch1
                 ELSE IF timer = 0
                 THEN [ch1 EXCEPT !.ai_regen_timer = 0, !.ai_npc_role = 0,
                                  !.ai_state2 = @ \cup {"ESCAPE"}]
                 ELSE [ch1 EXCEPT !.ai_regen_timer = timer]
        \* die for real
        nAmount == ch1.loot + (IF i = 0 THEN pl.lockedCoins ELSE 0)
    IN KillRangedAttacks_Character_dropped(w, k, s, pl, i, ch0, ch1, g1, idie, ilive, alive, g2,
                                           regen,
                                           IF nAmount > 0
                                           THEN AddLoot(SetChar(s, k, ch1), PushCoordOutOfSpawnArea(ch1.coord), nAmount)
                                           ELSE SetChar(s, k, ch1))

\* KillRangedAttacks_Character: the part that follows recycled
KillRangedAttacks_Character_recycled(w, k, s, pl, i, tmp_color, ch0, ch1, g1, idie, toMerchant,
                                     saved, ilive, pays, recycled) ==
    LET alive == LET c == StopMoving(recycled)
                 IN [c EXCEPT !.ai_state = @ \ {"SURVIVAL", "RESTING"},
                              !.ai_state2 = (@ \ DeathFlags)
                                            \cup (IF ilive >= 2 THEN {"ESCAPE"} ELSE {})]
    IN KillRangedAttacks_Character_g2(w, k, s, pl, i, ch0, ch1, g1, idie, ilive, alive,
                                      [g1 EXCEPT
                                         !.Rpg_MissingMerchantPerColor[tmp_color] = IF idie /\ toMerchant THEN 0 ELSE @,
                                         !.Merchant_sats_received[MERCH_RING_IMMORTALITY] =
                                             IF idie /\ ~toMerchant /\ saved /\ pays
                                             THEN @ + PRICE_RING_IMMORTALITY * COIN ELSE @])

\* KillRangedAttacks_Character: the part that follows toMonster
KillRangedAttacks_Character_toMonster(w, k, s, pl, i, tmp_color, ch0, ch1, g1, idie, toMerchant,
                                      saved, toMonster) ==
    LET ilive == IF toMerchant THEN 1 ELSE IF saved \/ toMonster THEN 2 ELSE 0
        pays == ch1.ai_slot_ring = AI_ITEM_LIFE_SAVING
                /\ ch1.loot >= PRICE_RING_IMMORTALITY * COIN
                /\ MERCH_RING_IMMORTALITY \in g1.Merchant_exists
        pop == g1.Rpg_PopulationCount
        role1 == IF pop[MONSTER_SPITTER] < pop[MONSTER_REAPER] THEN MONSTER_SPITTER
                 ELSE MONSTER_REAPER
        my_role == IF pop[MONSTER_REDHEAD] < pop[role1] THEN MONSTER_REDHEAD ELSE role1
    IN KillRangedAttacks_Character_recycled(w, k, s, pl, i, tmp_color, ch0, ch1, g1, idie,
                                            toMerchant, saved, ilive, pays,
                                            IF toMerchant
                                            THEN [ch1 EXCEPT !.ai_npc_role = g1.Rpg_MissingMerchantPerColor[tmp_color]]
                                            ELSE IF saved
                                            THEN [ch1 EXCEPT !.loot = IF pays THEN @ - PRICE_RING_IMMORTALITY * COIN ELSE @,
                                                             !.ai_slot_amulet =
                                                                 IF ch1.ai_slot_ring # AI_ITEM_LIFE_SAVING
                                                                    /\ @ = AI_ITEM_LIFE_SAVING THEN 0 ELSE @]
                                            ELSE [ch1 EXCEPT !.ai_npc_role = my_role,
                                                             !.ai_regen_timer =
                                                                 IF ch1.ai_slot_amulet = AI_ITEM_REGEN
                                                                 THEN (IF g1.Cache_min_version < 2020700
                                                                       THEN RPG_INTERVAL_MONSTERAPOCALYPSE
                                                                       ELSE g1.Cache_timeslot_duration)
                                                                 ELSE -1,
                                                             !.ai_slot_amulet = 0, !.ai_slot_ring = 0, !.rpg_slot_armor = 0,
                                                             !.rpg_slot_spell =
                                                                 IF my_role = MONSTER_REAPER THEN AI_ATTACK_DEATH
                                                                 ELSE IF my_role = MONSTER_SPITTER THEN AI_ATTACK_POISON
                                                                 ELSE AI_ATTACK_FIRE])

\* KillRangedAttacks_Character: the part that follows toMerchant
KillRangedAttacks_Character_toMerchant(w, k, s, pl, i, tmp_color, ch0, ch1, g1, idie, toMerchant) ==
    LET saved == AI_IS_SAFEZONE(ch1.coord[1], ch1.coord[2])
                 \/ ch1.ai_slot_amulet = AI_ITEM_LIFE_SAVING
                 \/ ch1.ai_slot_ring = AI_ITEM_LIFE_SAVING
    IN KillRangedAttacks_Character_toMonster(w, k, s, pl, i, tmp_color, ch0, ch1, g1, idie,
                                             toMerchant, saved,
                                             g1.Rpg_need_monsters_badly
                                             \/ (tmp_color # g1.Rpg_StrongestTeam /\ g1.Rpg_monsters_weaker_than_players)
                                             \/ tmp_color = g1.Rpg_WeakestTeam)

\* KillRangedAttacks_Character: the part that follows g1
KillRangedAttacks_Character_g1(w, k, s, pl, i, tmp_color, ch0, general_is_merchant, ch1, g1) ==
    LET idie == ch1.ai_state2 \cap DeathFlags # {}
    IN KillRangedAttacks_Character_toMerchant(w, k, s, pl, i, tmp_color, ch0, ch1, g1, idie,
                                              g1.Rpg_MissingMerchantPerColor[tmp_color] # 0
                                              /\ (i = 0 \/ general_is_merchant))

\* KillRangedAttacks_Character: the part that follows ch1
KillRangedAttacks_Character_ch1(w, k, s, gg, pl, i, tmp_color, ch0, general_is_merchant, champion,
                                ch1) ==
    KillRangedAttacks_Character_g1(w, k, s, pl, i, tmp_color, ch0, general_is_merchant, ch1,
                                   IF champion
                                   THEN [gg EXCEPT !.Rpg_Champion_BestSP[tmp_color] = ch0.rpg_survival_points,
                                                   !.Rpg_Champion_BestCoinAmount[tmp_color] = ch0.loot]
                                   ELSE gg)

\* KillRangedAttacks_Character: the part that follows champion
KillRangedAttacks_Character_champion(w, k, s, gg, pl, i, tmp_color, ch0, general_is_merchant,
                                     called, champion) ==
    KillRangedAttacks_Character_ch1(w, k, s, gg, pl, i, tmp_color, ch0, general_is_merchant,
                                    champion,
                                    IF champion THEN [ch0 EXCEPT !.ai_state3 = @ \cup {"SUMMONCHAMPION"}]
                                    ELSE IF called /\ ~(ch0.rpg_survival_points > 0) /\ gg.Rpg_MissingMerchantCount > 0
                                    THEN [ch0 EXCEPT !.ai_state2 = @ \cup {"DEATH_DEATH"}]
                                    ELSE ch0)

\* KillRangedAttacks_Character: the part that follows better
KillRangedAttacks_Character_better(w, k, s, gg, pl, i, tmp_color, ch0, general_is_merchant, called,
                                   better) ==
    KillRangedAttacks_Character_champion(w, k, s, gg, pl, i, tmp_color, ch0, general_is_merchant,
                                         called, called /\ ch0.rpg_survival_points > 0 /\ better)

\* loop body of GameState::KillRangedAttacks for character k of the state
\* sIn the pass started with; w.dead collects toErase
KillRangedAttacks_Character(w, k, sIn) ==
    LET s == w.s
        gg == w.g
        pl == s.players[k[1]]
        i == k[2]
        tmp_color == pl.color
        ch0 == GetChar(s, k)
        general_is_merchant ==
            0 \in DOMAIN sIn.players[k[1]].characters
            /\ NPCROLE_IS_MERCHANT(sIn.players[k[1]].characters[0].ai_npc_role)
        \* hunter messages (manual destruct)
        called == ch0.ai_npc_role = 0 /\ \E j \in 1..Len(gg.Huntermsg_destruct) :
                                             gg.Huntermsg_destruct[j] = k
    IN KillRangedAttacks_Character_better(w, k, s, gg, pl, i, tmp_color, ch0, general_is_merchant,
                                          called,
                                          ch0.rpg_survival_points > gg.Rpg_Champion_BestSP[tmp_color]
                                          \/ (ch0.rpg_survival_points = gg.Rpg_Champion_BestSP[tmp_color]
                                              /\ ch0.loot > gg.Rpg_Champion_BestCoinAmount[tmp_color]))

\* KillRangedAttacks: the part that follows w1
KillRangedAttacks_w1(w1) ==
    [s |-> EraseCharacters(w1.s, w1.dead), g |-> w1.g, res |-> w1.res, fault |-> w1.fault]

\* no character is looked at
KillRangedAttacksOfNobody(w) == w

\* GameState::KillRangedAttacks
KillRangedAttacks(w) ==
    KillRangedAttacks_w1(FoldSeq(LAMBDA acc, k : KillRangedAttacks_Character(acc, k, w.s),
                                 [s |-> w.s, g |-> w.g, res |-> w.res, fault |-> w.fault, dead |-> {}],
                                 CharKeys(w.s)))

\* a decrement that kills a player one step late, at the transition from 0
DecrementLifeLate(w) ==
    [w EXCEPT
       !.s.players = [p \in DOMAIN @ |->
                         IF @[p].remainingLife > 0 THEN [@[p] EXCEPT !.remainingLife = @ - 1]
                         ELSE @[p]],
       !.res = FoldSeq(LAMBDA acc, p : KillPlayer(acc, p, "KILLED_POISON"), @,
                       SortInts({p \in DOMAIN w.s.players : w.s.players[p].remainingLife = 0}))]

\* GameState::DecrementLife
DecrementLife(w) ==
    LET poisoned == {p \in DOMAIN w.s.players : w.s.players[p].remainingLife # -1}
        dying == {p \in poisoned : w.s.players[p].remainingLife = 1}
    IN [w EXCEPT
          !.s.players = [p \in DOMAIN @ |->
                            IF p \in poisoned THEN [@[p] EXCEPT !.remainingLife = @ - 1] ELSE @[p]],
          !.res = FoldSeq(LAMBDA acc, p : KillPlayer(acc, p, "KILLED_POISON"), @, SortInts(dying)),
          !.fault = @ \/ \E p \in poisoned : w.s.players[p].remainingLife <= 0]

\* the loot of the killed players is handled and the players are kept
FinaliseKillsKeepsPlayers(w) ==
    FoldSeq(LAMBDA acc, victim :
                FoldSeq(LAMBDA a, i : HandleKilledLoot(a, victim, i, w.res.killedBy[victim]),
                        acc, SortInts(DOMAIN w.s.players[victim].characters)),
            w, SortInts(w.res.killedPlayers))

\* GameState::FinaliseKills
FinaliseKills(w) ==
    LET victims == SortInts(w.res.killedPlayers)
        w1 == FoldSeq(LAMBDA acc, victim :
                          FoldSeq(LAMBDA a, i : HandleKilledLoot(a, victim, i, w.res.killedBy[victim]),
                                  acc, SortInts(DOMAIN w.s.players[victim].characters)),
                      w, victims)
    IN [w1 EXCEPT !.s.players = [p \in (DOMAIN @) \ w.res.killedPlayers |-> @[p]]]

\* GameState::RemoveHeartedCharacters
RemoveHeartedCharacters(w) ==
    LET hearted == {k \in {CharKeys(w.s)[j] : j \in 1..Len(CharKeys(w.s))} : k[2] # 0}
        w1 == FoldSeq(LAMBDA acc, k :
                          IF k[2] = 0 THEN acc
                          ELSE HandleKilledLoot(acc, k[1], k[2], "KILLED_POISON"),
                      [w EXCEPT !.s.hearts = {}], CharKeys(w.s))
    IN [w1 EXCEPT !.s = EraseCharacters(@, hearted),
                  !.fault = @ \/ ~IsForkHeight(FORK_LIFESTEAL, w.s.nHeight)]

---------------------------------------------------------------------------
(* Pass 2: bounty payment of the merchant and melee attacks.               *)

\* flags that the melee attack of character ch of colour tmp_color adds to Damageflagmap
MeleeFlags(ch, tmp_color) ==
    LET tmp_clevel == IF ch.rpg_slot_spell > 0 THEN RPG_CLEVEL_FROM_LOOT(ch.loot) ELSE 1
        flags == {"DMGMAP_DEATH1"}
                 \cup (IF ch.rpg_slot_spell \in {AI_ATTACK_KNIGHT, AI_ATTACK_ESTOC} /\ tmp_clevel >= 2
                       THEN {"DMGMAP_DEATH2"} ELSE {})
                 \cup (IF ch.rpg_slot_spell = AI_ATTACK_ESTOC /\ tmp_clevel >= 3
                       THEN {"DMGMAP_DEATH3"} ELSE {})
    IN {<<u, v, k, f>> : u \in (ch.coord[1] - 1)..(ch.coord[1] + 1),
                         v \in (ch.coord[2] - 1)..(ch.coord[2] + 1),
                         k \in Colors \ {tmp_color}, f \in flags}

\* loop body of GameState::Pass2_Melee for character k
Pass2_Character(w, k) ==
    LET s == w.s
        pl == s.players[k[1]]
        ch == GetChar(s, k)
        pay == w.g.Cache_NPC_bounty_loot_paid > 0 /\ ch.ai_npc_role = MERCH_INFO_DEVMODE
        s1 == IF pay THEN SetChar(s, k, [ch EXCEPT !.loot = @ - w.g.Cache_NPC_bounty_loot_paid])
              ELSE s
        attacks == "STASIS" \notin ch.ai_state2 /\ pl.dlevel = w.g.nCalculatedActiveDlevel
                   /\ IsInsideMap(ch.coord[1], ch.coord[2])
                   /\ ~AI_IS_SAFEZONE(ch.coord[1], ch.coord[2])
                   /\ ~NPCROLE_IS_MERCHANT(ch.ai_npc_role)
                   /\ pl.color \in Colors
    IN [w EXCEPT !.s = s1,
                 !.g.Cache_NPC_bounty_loot_paid = IF pay THEN 0 ELSE @,
                 !.g.Damageflagmap =
                     IF attacks
                     THEN @ \cup {t \in MeleeFlags(ch, pl.color) : IsInsideMap(t[1], t[2])}
                     ELSE @]

\* GameState::Pass2_Melee
Pass2_Melee(w) == FoldSeq(LAMBDA acc, k : Pass2_Character(acc, k), w, CharKeys(w.s))

---------------------------------------------------------------------------
(* Movement of a character, part 1: upkeep, merchants, teleport home.      *)

\* Rpg_getMerchantOffer: base prices, in whole coins
MerchantBasePrice ==
    [nm \in 1..(NUM_MERCHANTS - 1) |->
        CASE nm = 12 -> 50 [] nm = 23 -> 35 [] nm = 24 -> 80 [] nm = 13 -> 80 [] nm = 30 -> 90
          [] nm = 14 -> 20 [] nm = 16 -> 30 [] nm = 35 -> 20 [] nm = 36 -> 20 [] nm = 37 -> 20
          [] nm = 22 -> PRICE_RING_IMMORTALITY
          [] nm = 18 -> 50 [] nm = 29 -> 15 [] nm = 19 -> 30 [] nm = 20 -> 60 [] nm = 38 -> 90
          [] OTHER -> 0]

Rpg_getMerchantOffer(gg, m, h) ==
    LET base == MerchantBasePrice[m]
        age == h - gg.Merchant_last_sale[m]
    IN IF h <= 0 \/ gg.Merchant_last_sale[m] <= 0 THEN base
       ELSE IF age > 10000 THEN CDiv(base, 10)
       ELSE IF age > 5000 THEN CDiv(base * 3, 10)
       ELSE IF age > 2000 THEN CDiv(base * 5, 10)
       ELSE IF age > 1000 THEN CDiv(base * 6, 10)
       ELSE IF age > 500 THEN CDiv(base * 7, 10)
       ELSE IF age > 200 THEN CDiv(base * 8, 10)
       ELSE IF age > 100 THEN CDiv(base * 9, 10)
       ELSE base

\* the merchants that sell an item for a slot: <<merchant, slot, item>>
MerchantGoods ==
    {<<14, "rpg_slot_spell", AI_ATTACK_POISON>>, <<35, "rpg_slot_spell", AI_ATTACK_FIRE>>,
     <<36, "rpg_slot_spell", AI_ATTACK_DEATH>>, <<16, "ai_slot_ring", 1>>,
     <<MERCH_RING_IMMORTALITY, "ai_slot_ring", AI_ITEM_LIFE_SAVING>>,
     <<MERCH_AMULET_LIFE_SAVING, "ai_slot_amulet", AI_ITEM_LIFE_SAVING>>,
     <<MERCH_ARMOR_BUFFCOAT, "rpg_slot_armor", RPG_ARMOR_BUFFCOAT>>,
     <<23, "rpg_slot_armor", RPG_ARMOR_LINEN>>, <<24, "rpg_slot_armor", 3>>,
     <<13, "rpg_slot_armor", 4>>, <<30, "rpg_slot_armor", 5>>,
     <<18, "rpg_slot_spell", AI_ATTACK_ESTOC>>, <<29, "rpg_slot_spell", AI_ATTACK_KNIGHT>>,
     <<19, "rpg_slot_spell", 3>>, <<20, "rpg_slot_spell", 4>>, <<38, "rpg_slot_spell", 8>>}

AI_TILE_IS_MERCHANT(gg, c, M) ==
    c = Merchant_base(M) /\ M \in gg.Merchant_exists /\ gg.Merchant_pos[M] = c

\* a purchase that does not look at the slot
AI_BUY_AGAIN(r, offer, out_height) ==
    LET M == offer[1]
        price == Rpg_getMerchantOffer(r.g, M, out_height) * COIN
    IN IF M \in r.g.Merchant_exists /\ r.ch.loot >= price
       THEN [ch |-> [r.ch EXCEPT !.loot = @ - price, ![offer[2]] = offer[3]],
             g |-> [r.g EXCEPT !.Merchant_sats_received[M] = @ + price]]
       ELSE r

\* AI_BUY_FROM_MERCHANT(S, I, M) for the offer <<M, S, I>>, on r = [ch, g]
AI_BUY_FROM_MERCHANT(r, offer, out_height) ==
    LET M == offer[1]
        price == Rpg_getMerchantOffer(r.g, M, out_height) * COIN
    IN IF r.ch[offer[2]] # offer[3] /\ M \in r.g.Merchant_exists /\ r.ch.loot >= price
       THEN [ch |-> [r.ch EXCEPT !.loot = @ - price, ![offer[2]] = offer[3]],
             g |-> [r.g EXCEPT !.Merchant_sats_received[M] = @ + price]]
       ELSE r

\* what a player character gets from the merchant on whose tile it stands
VisitMerchant(r, out_height) ==
    LET c == r.ch.coord
        here == {o \in MerchantGoods : AI_TILE_IS_MERCHANT(r.g, c, o[1])}
        offer == CHOOSE o \in here : TRUE
        At(M) == AI_TILE_IS_MERCHANT(r.g, c, M)
    IN IF here # {}
       THEN (IF offer[1] = 16 /\ r.ch.ai_slot_ring = AI_ITEM_LIFE_SAVING THEN r
             ELSE AI_BUY_FROM_MERCHANT(r, offer, out_height))
       ELSE IF At(15) THEN [r EXCEPT !.ch.ai_slot_amulet = 1]
       ELSE IF At(17) THEN [r EXCEPT !.ch.ai_slot_amulet = AI_ITEM_REGEN]
       ELSE IF At(31) THEN [r EXCEPT !.ch.ai_state = @ \cup {"SURVIVAL", "RESTING", "MARK_RECALL"}]
       ELSE IF At(32) THEN [r EXCEPT !.ch.ai_state = (@ \cup {"SURVIVAL", "RESTING"}) \ {"MARK_RECALL"}]
       ELSE IF At(33) THEN [r EXCEPT !.ch.ai_state = (@ \cup {"SURVIVAL"}) \ {"RESTING", "MARK_RECALL"}]
       ELSE IF At(34) THEN [r EXCEPT !.ch.ai_state = @ \ {"SURVIVAL", "RESTING", "MARK_RECALL"}]
       ELSE IF At(26) THEN [r EXCEPT !.ch.ai_state3 = @ \cup {"DUTY", "FANATISM"}]
       ELSE IF At(27) THEN [r EXCEPT !.ch.ai_state3 = (@ \cup {"DUTY"}) \ {"FANATISM"}]
       ELSE IF At(28) THEN [r EXCEPT !.ch.ai_state3 = @ \ {"DUTY", "FANATISM"}]
       ELSE r

\* PayUpkeep: the part that follows ch2
PayUpkeep_ch2(gg, ch1, need_ration, pay_upkeep, ch2) ==
    LET tl == Min(RPG_CLEVEL_FROM_LOOT(ch2.loot), 5)
        buys == ch2.loot >= gg.Cache_adjusted_ration_price
        paysMerchant == MERCH_RATIONS_TEST \in gg.Merchant_exists
        ch3 == IF ch2.rpg_rations - 1 >= 0
               THEN [ch2 EXCEPT !.rpg_rations = @ - 1, !.rpg_survival_points = @ + tl]
               ELSE IF buys
               THEN [ch2 EXCEPT !.rpg_rations = 0, !.rpg_survival_points = @ + tl,
                                !.loot = IF paysMerchant THEN @ - gg.Cache_adjusted_ration_price
                                         ELSE @]
               ELSE [ch2 EXCEPT !.rpg_rations = @ - 1]
        g3 == IF ch2.rpg_rations - 1 < 0 /\ buys /\ paysMerchant
              THEN [gg EXCEPT !.Merchant_sats_received[MERCH_RATIONS_TEST] =
                                  @ + gg.Cache_adjusted_ration_price]
              ELSE gg
    IN IF NPCROLE_IS_MERCHANT(ch1.ai_npc_role) \/ ~need_ration THEN [ch |-> ch1, g |-> gg]
       ELSE IF pay_upkeep THEN [ch |-> ch3, g |-> g3]
       ELSE [ch |-> ch2, g |-> gg]

\* PayUpkeep: the part that follows pay_upkeep
PayUpkeep_pay_upkeep(gg, ch1, need_ration, set_noupkeep_flag, clear_noupkeep_flag, pay_upkeep) ==
    PayUpkeep_ch2(gg, ch1, need_ration, pay_upkeep,
                  [ch1 EXCEPT !.ai_state3 =
                      LET a == IF set_noupkeep_flag THEN @ \cup {"STASIS_NOUPKEEP"} ELSE @
                      IN IF clear_noupkeep_flag THEN a \ {"STASIS_NOUPKEEP"} ELSE a])

\* PayUpkeep: the part that follows clear_noupkeep_flag
PayUpkeep_clear_noupkeep_flag(ch0, gg, old, inStasis, crowded, ch1, need_ration, freeOld,
                              set_noupkeep_flag, clear_noupkeep_flag) ==
    PayUpkeep_pay_upkeep(gg, ch1, need_ration, set_noupkeep_flag, clear_noupkeep_flag,
                         IF old THEN ~freeOld
                         ELSE (~inStasis \/ crowded \/ "STASIS_NOUPKEEP" \notin ch0.ai_state3))

\* PayUpkeep: the part that follows set_noupkeep_flag
PayUpkeep_set_noupkeep_flag(ch0, gg, old, inStasis, crowded, ch1, need_ration, freeOld,
                            set_noupkeep_flag) ==
    PayUpkeep_clear_noupkeep_flag(ch0, gg, old, inStasis, crowded, ch1, need_ration, freeOld,
                                  set_noupkeep_flag,
                                  IF old THEN ~freeOld ELSE (~inStasis \/ crowded))

\* the ration bookkeeping at the start of MoveTowardsWaypointX_Merchants
PayUpkeep(r, out_height) ==
    LET ch0 == IF r.ch.aux_spawn_block = 0
               THEN [r.ch EXCEPT !.aux_spawn_block = out_height - 1, !.rpg_rations = 1]
               ELSE r.ch
        gg == r.g
        old == gg.Cache_min_version < 2020700
        inStasis == "STASIS" \in ch0.ai_state2
        crowded == gg.Rpg_TotalPopulationCount_global > gg.Cache_adjusted_population_limit
        age == IF ch0.ai_reserve64_1 = 0 THEN out_height - ch0.aux_spawn_block
               ELSE ch0.ai_reserve64_1 + 1
        ch1 == IF old THEN ch0 ELSE [ch0 EXCEPT !.ai_reserve64_1 = age]
        need_ration == IF old
                       THEN (out_height - ch0.aux_spawn_block) % RPG_INTERVAL_MONSTERAPOCALYPSE = 0
                       ELSE age % gg.Cache_timeslot_duration = 0
        freeOld == inStasis /\ ch0.aux_stasis_block < out_height - RPG_INTERVAL_MONSTERAPOCALYPSE
                   /\ ~crowded
    IN PayUpkeep_set_noupkeep_flag(ch0, gg, old, inStasis, crowded, ch1, need_ration, freeOld,
                                   IF old THEN freeOld
                                   ELSE inStasis /\ ~crowded /\ "STASIS_NOUPKEEP" \notin ch0.ai_state3)


\* MoveTowardsWaypointX_Merchants: the part that follows r3
MoveTowardsWaypointX_Merchants_r3(color, r1, frozen, r3) ==
    LET isMerchant == NPCROLE_IS_MERCHANT(r3.ch.ai_npc_role)
        stuck == ~isMerchant /\ ~IsWalkable(r3.ch.coord[1], r3.ch.coord[2])
        home == IF NPCROLE_IS_MONSTER(r3.ch.ai_npc_role) THEN POI_pos_b[color * 2 + 2]
                ELSE Merchant_base(MERCH_STASIS)
    IN IF frozen THEN r1
       ELSE IF stuck \/ "ESCAPE" \in r3.ch.ai_state2
       THEN [r3 EXCEPT !.ch = [@ EXCEPT !.ai_state2 = @ \ {"ESCAPE"}, !.coord = home,
                                        !.ai_idle_time = 0, !.waypoints = <<>>,
                                        !.from = home]]
       ELSE r3

\* MoveTowardsWaypointX_Merchants: the part that follows r1
MoveTowardsWaypointX_Merchants_r1(color, out_height, r1) ==
    LET frozen == "STASIS" \in r1.ch.ai_state2 /\ r1.ch.waypoints = <<>>
        r2 == [r1 EXCEPT !.ch.ai_state2 = @ \ {"STASIS", "NORMAL_TP"},
                         !.ch.ai_state = @ \ {"NORMAL_STEP"}]
    IN MoveTowardsWaypointX_Merchants_r3(color, r1, frozen,
                                         IF r2.ch.ai_npc_role = 0 THEN VisitMerchant(r2, out_height) ELSE r2)

\* a MoveTowardsWaypointX_Merchants that ends stasis in every step
MoveTowardsWaypointX_MerchantsAwake(r, color, out_height) ==
    IF color < 0 \/ color >= STATE_NUM_TEAM_COLORS \/ ~IsInsideMap(r.ch.coord[1], r.ch.coord[2])
    THEN [r EXCEPT !.ch.from = r.ch.coord]
    ELSE
    MoveTowardsWaypointX_Merchants_r1(color, out_height,
                                      PayUpkeep([r EXCEPT !.ch.ai_state2 = @ \ {"STASIS"}],
                                                out_height))

\* CharacterState::MoveTowardsWaypointX_Merchants on r = [ch, g].  The data
\* waypoint (0, 21) that stores an alternative name is never sent here.
MoveTowardsWaypointX_Merchants(r, color, out_height) ==
    IF color < 0 \/ color >= STATE_NUM_TEAM_COLORS \/ ~IsInsideMap(r.ch.coord[1], r.ch.coord[2])
    THEN [r EXCEPT !.ch.from = r.ch.coord]
    ELSE
    MoveTowardsWaypointX_Merchants_r1(color, out_height, PayUpkeep(r, out_height))

---------------------------------------------------------------------------
(* Movement of a character, part 2: the pathfinder.  The ranged attacks    *)
(* and the long-range walk to a point of interest need the distance tables *)
(* of the map, which are not part of this source: a character without      *)
(* waypoints makes the random move or stays.                               *)

RPG_COMMAND_CHAMPION_REQUIRED_SP(h) == 20
AI_NUM_MOVES == 10

Abs(n) == IF n < 0 THEN -n ELSE n

CoordStep(x, target) == IF x < target THEN x + 1 ELSE IF x > target THEN x - 1 ELSE x

CoordUpd(u, v, du, dv, from_u, from_v) ==
    IF dv # 0
    THEN LET tmp == (u - from_u) * dv
             res == CDiv(Abs(tmp) + Abs(du) \div 2, du)
         IN (IF tmp < 0 THEN -res ELSE res) + from_v
    ELSE v

\* pop_back while the last waypoint is the tile c
PopReached(wp, c) ==
    LET keep == {n \in 0..Len(wp) : \A i \in (n + 1)..Len(wp) : wp[i] = c}
        n == CHOOSE m \in keep : \A o \in keep : m <= o
    IN SubSeq(wp, 1, n)

\* the candidate tiles of the random move, in the order of the two loops
RandomMoves(gg, c) ==
    LET x == c[1]
        y == c[2]
        ok(u, v) == /\ IsInsideMap(u, v) /\ IsWalkable(u, v) /\ ~(u = x /\ v = y)
                    /\ ~(AI_IS_SAFEZONE(x, y) /\ ~AI_IS_SAFEZONE(u, v))
                    /\ ~(AI_IS_SAFEZONE(u, v) /\ ~AI_IS_SAFEZONE(x, y))
                    /\ \A nm \in 1..(NUM_MERCHANTS - 1) : Merchant_base(nm) # <<u, v>>
                    /\ ~IsInSpawnArea(u, v)
        all == [i \in 1..9 |-> <<x - 1 + ((i - 1) \div 3), y - 1 + ((i - 1) % 3)>>]
    IN SelectSeq(all, LAMBDA t : ok(t[1], t[2]))

\* WaypointStep: the part that follows new_c
WaypointStep_new_c(ch, target, nx, ny, new_c) ==
    LET new_dir == GetDirection(ch.coord, new_c)
        moved == [ch EXCEPT !.dir = IF new_dir # 5 THEN new_dir ELSE @,
                            !.ai_state = IF new_dir # 5 THEN @ \cup {"NORMAL_STEP"} ELSE @,
                            !.coord = new_c]
    IN IF ~IsWalkable(nx, ny) THEN StopMoving(ch)
       ELSE IF new_c = target
       THEN [moved EXCEPT !.from = new_c, !.waypoints = PopReached(@, new_c)]
       ELSE moved

\* WaypointStep: the part that follows ny
WaypointStep_ny(ch, target, nx, ny) ==
    WaypointStep_new_c(ch, target, nx, ny, <<nx, ny>>)

\* the straight step towards the last waypoint
WaypointStep(ch) ==
    LET target == ch.waypoints[Len(ch.waypoints)]
        dx == target[1] - ch.from[1]
        dy == target[2] - ch.from[2]
        nx == IF Abs(dx) > Abs(dy) THEN CoordStep(ch.coord[1], target[1])
              ELSE CoordUpd(CoordStep(ch.coord[2], target[2]), ch.coord[1], dy, dx,
                            ch.from[2], ch.from[1])
    IN WaypointStep_ny(ch, target, nx,
                       IF Abs(dx) > Abs(dy)
                       THEN CoordUpd(nx, ch.coord[2], dx, dy, ch.from[1], ch.from[2])
                       ELSE CoordStep(ch.coord[2], target[2]))


\* a corner that is one tile beyond the last column and the last row
CornerBeyondMap(color) ==
    <<IF color = 1 \/ color = 2 THEN MAP_WIDTH ELSE 0,
      IF color >= 2 THEN MAP_HEIGHT ELSE 0>>

\* "prepare to logout due to starving": the corner of the map of the colour
StarvationCorner(color) ==
    <<IF color = 1 \/ color = 2 THEN MAP_WIDTH - 1 ELSE 0,
      IF color >= 2 THEN MAP_HEIGHT - 1 ELSE 0>>

\* MoveTowardsWaypointX_Pathfinder: the part that follows ch6
MoveTowardsWaypointX_Pathfinder_ch6(gg, rnd, out_height, ch1, corner, ch3, ch4, tps, tp, ai_moves,
                                    stepped, idle, ch6) ==
    IF ch1.rpg_rations < 0
    THEN [ch |-> [ch1 EXCEPT !.stay_in_spawn_area = STATE_MAX_STAY_IN_SPAWN_AREA,
                             !.ai_state2 = (@ \ {"STASIS"}) \cup {"NORMAL_TP"},
                             !.coord = corner, !.ai_idle_time = 0, !.from = corner],
          rnd |-> rnd]
    ELSE IF ch3.waypoints = <<>>
    THEN (IF tps # {}
          THEN [ch |-> [ch4 EXCEPT !.coord = POI_pos_b[tp], !.ai_idle_time = 0,
                                   !.from = POI_pos_b[tp],
                                   !.ai_state2 = @ \cup {"NORMAL_TP"}],
                rnd |-> rnd]
          ELSE IF NPCROLE_IS_MERCHANT(ch4.ai_npc_role)
          THEN [ch |-> [ch4 EXCEPT !.coord = Merchant_base(ch4.ai_npc_role),
                                   !.ai_idle_time = 0,
                                   !.from = Merchant_base(ch4.ai_npc_role)],
                rnd |-> rnd]
          ELSE IF ch4.coord = Merchant_base(MERCH_STASIS) /\ MERCH_STASIS \in gg.Merchant_exists
          THEN [ch |-> [ch4 EXCEPT !.aux_stasis_block = out_height,
                                   !.ai_state2 = @ \cup {"STASIS"},
                                   !.ai_idle_time = 0, !.from = ch4.coord],
                rnd |-> rnd]
          ELSE IF ai_moves >= 1
          THEN [ch |-> stepped, rnd |-> IF ai_moves > 1 THEN RndAdvance(rnd) ELSE rnd]
          ELSE [ch |-> idle, rnd |-> rnd])
    ELSE IF ch6.waypoints = <<>> THEN [ch |-> ch6, rnd |-> rnd]
    ELSE [ch |-> WaypointStep(ch6), rnd |-> rnd]

\* MoveTowardsWaypointX_Pathfinder: the part that follows stepped
MoveTowardsWaypointX_Pathfinder_stepped(gg, rnd, out_height, ch1, corner, ch3, ch4, tps, tp, ch5,
                                        ai_moves, stepped) ==
    LET idle == [ch5 EXCEPT !.ai_idle_time = IF @ < 99 THEN @ + 1 ELSE @, !.from = ch5.coord]
        \* waypoints: walk the line
        atBack == ch3.coord = ch3.waypoints[Len(ch3.waypoints)]
    IN MoveTowardsWaypointX_Pathfinder_ch6(gg, rnd, out_height, ch1, corner, ch3, ch4, tps, tp,
                                           ai_moves, stepped, idle,
                                           IF atBack
                                           THEN [ch3 EXCEPT !.from = ch3.coord, !.waypoints = PopReached(@, ch3.coord)]
                                           ELSE ch3)

\* MoveTowardsWaypointX_Pathfinder: the part that follows success_dir
MoveTowardsWaypointX_Pathfinder_success_dir(gg, rnd, out_height, ch1, corner, ch3, ch4, tps, tp,
                                            ch5, ai_moves, success_c, success_dir) ==
    MoveTowardsWaypointX_Pathfinder_stepped(gg, rnd, out_height, ch1, corner, ch3, ch4, tps, tp,
                                            ch5, ai_moves,
                                            [ch5 EXCEPT !.ai_idle_time = 0,
                                                        !.dir = IF success_dir # 5 THEN success_dir ELSE @,
                                                        !.ai_state = IF success_dir # 5 THEN @ \cup {"NORMAL_STEP"}
                                                                     ELSE @,
                                                        !.coord = success_c, !.from = success_c])

\* MoveTowardsWaypointX_Pathfinder: the part that follows moves
MoveTowardsWaypointX_Pathfinder_moves(gg, rnd, out_height, ch1, corner, ch3, ch4, tps, tp, ch5,
                                      moves) ==
    LET ai_moves == Min(Len(moves), AI_NUM_MOVES)
        idx == IF ai_moves > 1 THEN GetIntRnd(rnd, ai_moves) ELSE 0
        success_c == moves[idx + 1]
    IN MoveTowardsWaypointX_Pathfinder_success_dir(gg, rnd, out_height, ch1, corner, ch3, ch4, tps,
                                                   tp, ch5, ai_moves, success_c,
                                                   GetDirection(ch5.coord, success_c))

\* MoveTowardsWaypointX_Pathfinder: the part that follows ch5
MoveTowardsWaypointX_Pathfinder_ch5(gg, rnd, color, out_height, x0, y0, myscore, ch1, corner, ch3,
                                    ch4, tps, tp, ch5) ==
    LET restless == ch5.ai_idle_time >= 4 \/ (IF <<x0, y0, color>> \in DOMAIN gg.AI_playermap
                        THEN gg.AI_playermap[<<x0, y0, color>>] ELSE 0) > myscore
    IN MoveTowardsWaypointX_Pathfinder_moves(gg, rnd, out_height, ch1, corner, ch3, ch4, tps, tp,
                                             ch5,
                                             IF restless THEN RandomMoves(gg, ch5.coord) ELSE <<>>)

\* MoveTowardsWaypointX_Pathfinder: the part that follows fresh
MoveTowardsWaypointX_Pathfinder_fresh(gg, rnd, color, out_height, x0, y0, myscore, ch1, corner,
                                      ch3, ch4, tps, tp, fresh) ==
    MoveTowardsWaypointX_Pathfinder_ch5(gg, rnd, color, out_height, x0, y0, myscore, ch1, corner,
                                        ch3, ch4, tps, tp,
                                        [ch4 EXCEPT
                                           !.ai_state = IF fresh /\ out_height % 6 >= 3
                                                        THEN @ \cup {"FARM_OUTER_RING"} ELSE @,
                                           !.ai_state3 = IF fresh /\ out_height % 7 >= 4 THEN @ \cup {"DUTY"} ELSE @])

\* MoveTowardsWaypointX_Pathfinder: the part that follows tps
MoveTowardsWaypointX_Pathfinder_tps(gg, rnd, color, out_height, x0, y0, myscore, ch1, corner, ch3,
                                    ch4, tps) ==
    LET tp == CHOOSE k \in tps : \A o \in tps : k <= o
    IN MoveTowardsWaypointX_Pathfinder_fresh(gg, rnd, color, out_height, x0, y0, myscore, ch1,
                                             corner, ch3, ch4, tps, tp,
                                             IsInSpawnArea(x0, y0) /\ ch4.aux_spawn_block = out_height - 1)

\* MoveTowardsWaypointX_Pathfinder: the part that follows ch2
MoveTowardsWaypointX_Pathfinder_ch2(gg, rnd, color, out_height, x0, y0, myscore, ch1, corner,
                                    ch2) ==
    LET champion == /\ ch2.rpg_survival_points >= RPG_COMMAND_CHAMPION_REQUIRED_SP(out_height)
                    /\ ch2.rpg_survival_points = gg.Rpg_Champion_BestSP[color]
                    /\ ch2.loot = gg.Rpg_Champion_BestCoinAmount[color]
        ch3 == IF "SUMMONCHAMPION" \in ch2.ai_state3
               THEN [ch2 EXCEPT !.ai_state3 = @ \ {"SUMMONCHAMPION"},
                                !.rpg_survival_points = IF champion THEN 0 ELSE @]
               ELSE ch2
        \* no waypoints: teleporters, merchants, the inn, the random move
        ch4 == [ch3 EXCEPT !.ai_state = @ \ {"MANUAL_MODE"}]
    IN MoveTowardsWaypointX_Pathfinder_tps(gg, rnd, color, out_height, x0, y0, myscore, ch1,
                                           corner, ch3, ch4,
                                           {k \in 1..8 : /\ (k % 2 = 1 \/ (k \div 2) - 1 = color)
                                                         /\ ch4.coord = POI_pos_a[k]})

\* CharacterState::MoveTowardsWaypointX_Pathfinder; the result is [ch, rnd]
MoveTowardsWaypointX_Pathfinder(ch0, gg, rnd, color, out_height) ==
    LET x0 == ch0.coord[1]
        y0 == ch0.coord[2]
        clevel == IF ch0.rpg_slot_spell > 0 THEN RPG_CLEVEL_FROM_LOOT(ch0.loot) ELSE 1
        myscore == RPG_SCORE_FROM_CLEVEL(clevel)
        foreign == \/ (RPG_YELLOW_BASE_PERIMETER(x0, y0) /\ color # 0)
                   \/ (RPG_RED_BASE_PERIMETER(x0, y0) /\ color # 1)
                   \/ (RPG_GREEN_BASE_PERIMETER(x0, y0) /\ color # 2)
                   \/ (RPG_BLUE_BASE_PERIMETER(x0, y0) /\ color # 3)
        ch1 == IF foreign THEN [ch0 EXCEPT !.ai_state2 = @ \cup {"DEATH_DEATH"}] ELSE ch0
        corner == StarvationCorner(color)
    IN MoveTowardsWaypointX_Pathfinder_ch2(gg, rnd, color, out_height, x0, y0, myscore, ch1,
                                           corner,
                                           IF ch1.waypoints = <<>> THEN ch1
                                           ELSE LET a == [ch1 EXCEPT !.ai_idle_time = 0]
                                                    b == IF NPCROLE_IS_MONSTER(a.ai_npc_role)
                                                              \/ NPCROLE_IS_MERCHANT(a.ai_npc_role)
                                                         THEN StopMoving(a)
                                                         ELSE IF "MANUAL_MODE" \notin a.ai_state
                                                         THEN [a EXCEPT !.ai_state = (@ \cup {"MANUAL_MODE"}) \ {"AUTO_MODE"}]
                                                         ELSE a
                                                IN IF ~AI_ADJACENT_IS_SAFEZONE(x0, y0) THEN StopMoving(b) ELSE b)


\* strtol of a message text: the number it starts with, 0 when there is none
Strtol(txt) == IF txt.ok THEN txt.units ELSE 0

\* MoveCharacter: the part that follows pf
MoveCharacter_pf(acc, k, s, pl, r, walks, pf) ==
    IF pl.dlevel # acc.w.g.nCalculatedActiveDlevel THEN acc
    ELSE IF walks
    THEN [w |-> [acc.w EXCEPT !.s = SetChar(s, k, pf.ch), !.g = r.g],
          rnd |-> pf.rnd, ran |-> acc.ran \cup {k[1]}]
    ELSE [acc EXCEPT !.w.s = SetChar(s, k, r.ch), !.w.g = r.g]

\* MoveCharacter: the part that follows r
MoveCharacter_r(acc, k, s, pl, r) ==
    LET walks == "STASIS" \notin r.ch.ai_state2
    IN MoveCharacter_pf(acc, k, s, pl, r, walks,
                        MoveTowardsWaypointX_Pathfinder(r.ch, r.g, acc.rnd, pl.color, s.nHeight))

\* a path-finding loop that never calls the pathfinder
MoveCharacterMerchantsOnly(acc, k) ==
    LET s == acc.w.s
        pl == s.players[k[1]]
        c0 == GetChar(s, k)
        c1 == IF StateForkInEffect(s, FORK_TIMESAVE) /\ c0.waypoints # <<>>
              THEN (IF CharacterInSpectatorMode(c0.stay_in_spawn_area) THEN StopMoving(c0)
                    ELSE [c0 EXCEPT !.stay_in_spawn_area = CHARACTER_MODE_NORMAL])
              ELSE c0
        r == MoveTowardsWaypointX_Merchants([ch |-> c1, g |-> acc.w.g], pl.color, s.nHeight)
    IN MoveCharacter_pf(acc, k, s, pl, r, FALSE, [ch |-> r.ch, rnd |-> acc.rnd])

\* the path-finding loop of PerformStep for one character; acc = [w, rnd, ran]
\* where ran holds the players for which a pathfinder call has reset dl
MoveCharacter(acc, k) ==
    LET s == acc.w.s
        pl == s.players[k[1]]
        c0 == GetChar(s, k)
        c1 == IF StateForkInEffect(s, FORK_TIMESAVE) /\ c0.waypoints # <<>>
              THEN (IF CharacterInSpectatorMode(c0.stay_in_spawn_area) THEN StopMoving(c0)
                    ELSE [c0 EXCEPT !.stay_in_spawn_area = CHARACTER_MODE_NORMAL])
              ELSE c0
    IN MoveCharacter_r(acc, k, s, pl,
                       MoveTowardsWaypointX_Merchants([ch |-> c1, g |-> acc.w.g], pl.color, s.nHeight))

\* a change of the level that does not ask whether a pathfinder has run
ChangeDlevelAwake(s, active, ran) ==
    [s EXCEPT !.players =
        [p \in DOMAIN s.players |->
            LET pl == s.players[p]
                dl == IF pl.msg_dlevel_block = s.nHeight - 1
                      THEN Strtol(pl.msg_dlevel) ELSE -1
            IN IF pl.dlevel = active /\ dl >= 0 /\ dl <= s.dao_DlevelMax
                  /\ s.dao_MinVersion >= 2020600
               THEN [pl EXCEPT !.dlevel = dl] ELSE pl]]

\* the dungeon level a player asked for in the previous block
ChangeDlevel(s, active, ran) ==
    [s EXCEPT !.players =
        [p \in DOMAIN s.players |->
            LET pl == s.players[p]
                dl == IF pl.msg_dlevel_block = s.nHeight - 1 /\ p \notin ran
                      THEN Strtol(pl.msg_dlevel) ELSE -1
            IN IF pl.dlevel = active /\ dl >= 0 /\ dl <= s.dao_DlevelMax
                  /\ s.dao_MinVersion >= 2020600
               THEN [pl EXCEPT !.dlevel = dl] ELSE pl]]

\* PathFinding: the part that follows r
PathFinding_r(w, r) ==
    [r.w EXCEPT !.s = ChangeDlevel(r.w.s, w.g.nCalculatedActiveDlevel, r.ran)]

\* "For all alive players perform path-finding"; rnd0 is seeded with the hash
\* of the previous block
PathFinding(w) ==
    PathFinding_r(w,
                  FoldSeq(MoveCharacter,
                          [w |-> w, rnd |-> RndSeed(w.g.AI_rng_seed_hashblock), ran |-> {}],
                          CharKeys(w.s)))


---------------------------------------------------------------------------
(* Pass 3 and pass 4: payments, hitscan, refunds.  Only melee writes the   *)
(* damage map here, so the hitscan reads the DEATH flags.                  *)

\* pays the open payments addressed to (or, for the refund, sent by) player
\* p to character k and closes them
PayOut(w, k, field) ==
    LET pays == w.g.Huntermsg_pay
        mine == {i \in 1..Len(pays) : pays[i].value # 0 /\ pays[i][field] = k[1]}
        total == Sum([i \in mine |-> pays[i].value])
    IN IF mine = {} THEN w
       ELSE [w EXCEPT !.s = SetChar(@, k, [GetChar(@, k) EXCEPT !.loot = @ + total]),
                      !.g.Huntermsg_pay =
                          [i \in 1..Len(pays) |->
                              IF i \in mine THEN [pays[i] EXCEPT !.value = 0] ELSE pays[i]]]

\* the tile the hitscan evaluates for a character: the tile it stands on,
\* or the one it came from when it made a normal step (numpad dirs, backwards)
HitscanTile(ch) ==
    LET step == "NORMAL_STEP" \in ch.ai_state
        y == IF ~step THEN ch.coord[2]
             ELSE IF ch.dir <= 3 THEN ch.coord[2] - 1
             ELSE IF ch.dir >= 7 THEN ch.coord[2] + 1 ELSE ch.coord[2]
        x == IF ~step THEN ch.coord[1]
             ELSE IF ch.dir % 3 = 1 THEN ch.coord[1] + 1
             ELSE IF ch.dir % 3 = 0 THEN ch.coord[1] - 1 ELSE ch.coord[1]
    IN <<x, y>>

\* a hitscan that does not know the safe zones
HitscanInSafeZones(ch, gg, pl) ==
    LET x == HitscanTile(ch)[1]
        y == HitscanTile(ch)[2]
        f == {t[4] : t \in {d \in gg.Damageflagmap :
                               d[1] = x /\ d[2] = y /\ d[3] = pl.color}}
    IN IF f # {} THEN [ch EXCEPT !.ai_state2 = @ \cup {"DEATH_DEATH"}, !.coord = <<x, y>>]
       ELSE ch

\* the hitscan of one character
Hitscan(ch, gg, pl) ==
    LET x == HitscanTile(ch)[1]
        y == HitscanTile(ch)[2]
        f == {t[4] : t \in {d \in gg.Damageflagmap :
                               d[1] = x /\ d[2] = y /\ d[3] = pl.color}}
        tmp_clevel == RPG_CLEVEL_FROM_LOOT(ch.loot)
        strong == f \cap {"DMGMAP_DEATH2", "DMGMAP_DEATH3"} # {}
        dies == IF tmp_clevel > 1 /\ (ch.rpg_slot_armor >= RPG_ARMOR_BUFFCOAT
                                       \/ ch.ai_npc_role = MONSTER_REAPER)
                THEN \/ (tmp_clevel = 2 /\ strong)
                     \/ (tmp_clevel >= 3 /\ "DMGMAP_DEATH3" \in f)
                     \/ (ch.rpg_slot_armor < RPG_ARMOR_LINEN /\ strong)
                ELSE TRUE
        ch1 == IF f # {} /\ dies THEN [ch EXCEPT !.ai_state2 = @ \cup {"DEATH_DEATH"}] ELSE ch
    IN IF IsInsideMap(x, y) /\ IsWalkable(x, y) /\ ~AI_IS_SAFEZONE(x, y)
       THEN (IF ch1.ai_state2 \cap DeathFlags # {} THEN [ch1 EXCEPT !.coord = <<x, y>>] ELSE ch1)
       ELSE ch

\* Pass3_Character: the part that follows ch2
Pass3_Character_ch2(k, w, tmp_m, sold, ch2) ==
    [w EXCEPT !.s = SetChar(@, k, ch2),
              !.g.Merchant_sats_received =
                  IF sold THEN [@ EXCEPT ![tmp_m] = 0] ELSE @]

\* Pass3_Character: the part that follows scanned
Pass3_Character_scanned(k, w, tmp_m, scanned) ==
    LET sold == NPCROLE_IS_MERCHANT(tmp_m) /\ w.g.Merchant_sats_received[tmp_m] > 0
    IN Pass3_Character_ch2(k, w, tmp_m, sold,
                           IF sold
                           THEN [scanned EXCEPT !.loot = @ + w.g.Merchant_sats_received[tmp_m],
                                                !.aux_last_sale_block = w.s.nHeight]
                           ELSE scanned)

\* Pass3_Character: the part that follows w
Pass3_Character_w(k, w) ==
    LET pl == w.s.players[k[1]]
        ch == GetChar(w.s, k)
        tmp_m == ch.ai_npc_role
    IN Pass3_Character_scanned(k, w, tmp_m,
                               IF ~NPCROLE_IS_MERCHANT(tmp_m) /\ "STASIS" \notin ch.ai_state2
                                  /\ pl.dlevel = w.g.nCalculatedActiveDlevel
                               THEN Hitscan(ch, w.g, pl) ELSE ch)

\* loop body of GameState::Pass3_PaymentAndHitscan for character k
Pass3_Character(w0, k) ==
    Pass3_Character_w(k, PayOut(w0, k, "other"))

Pass3_PaymentAndHitscan(w) == FoldSeq(Pass3_Character, w, CharKeys(w.s))

\* GameState::Pass4_Refund
Pass4_Refund(w) == FoldSeq(LAMBDA acc, k : PayOut(acc, k, "self"), w, CharKeys(w.s))


---------------------------------------------------------------------------
(* Crown, banking and the division of loot.                                *)

\* a crown that stays with a holder that has died
UpdateCrownStateOfDead(s) ==
    LET h == s.crownHolder
        alive == HasChar(s, <<h.player, h.index>>)
        onBank == IsBank(s, GetChar(s, <<h.player, h.index>>).coord)
    IN IF h.player = NoPlayer \/ ~alive
       THEN [s |-> s, respawn_crown |-> FALSE, fault |-> FALSE]
       ELSE IF onBank
       THEN [s |-> [s EXCEPT !.crownHolder = NoHolder], respawn_crown |-> TRUE,
             fault |-> s.banks = EmptyMap]
       ELSE [s |-> [s EXCEPT !.crownPos = GetChar(s, <<h.player, h.index>>).coord],
             respawn_crown |-> FALSE, fault |-> s.banks = EmptyMap]

\* a crown that follows its holder onto the banks
UpdateCrownStateOnBanks(s) ==
    LET h == s.crownHolder
        alive == HasChar(s, <<h.player, h.index>>)
    IN IF h.player = NoPlayer THEN [s |-> s, respawn_crown |-> FALSE, fault |-> FALSE]
       ELSE IF ~alive
       THEN [s |-> [s EXCEPT !.crownHolder = NoHolder], respawn_crown |-> FALSE, fault |-> FALSE]
       ELSE [s |-> [s EXCEPT !.crownPos = GetChar(s, <<h.player, h.index>>).coord],
             respawn_crown |-> FALSE, fault |-> s.banks = EmptyMap]

\* GameState::UpdateCrownState; the result is [s, respawn_crown, fault]
UpdateCrownState(s) ==
    LET h == s.crownHolder
        alive == HasChar(s, <<h.player, h.index>>)
        onBank == IsBank(s, GetChar(s, <<h.player, h.index>>).coord)
    IN IF h.player = NoPlayer THEN [s |-> s, respawn_crown |-> FALSE, fault |-> FALSE]
       ELSE IF ~alive
       THEN [s |-> [s EXCEPT !.crownHolder = NoHolder], respawn_crown |-> FALSE, fault |-> FALSE]
       ELSE IF onBank
       THEN [s |-> [s EXCEPT !.crownHolder = NoHolder], respawn_crown |-> TRUE,
             fault |-> s.banks = EmptyMap]
       ELSE [s |-> [s EXCEPT !.crownPos = GetChar(s, <<h.player, h.index>>).coord],
             respawn_crown |-> FALSE, fault |-> s.banks = EmptyMap]

\* a character in stasis banks like every other one
Bank_CharacterInStasis(w, k) ==
    LET s == w.s
        ch == GetChar(s, k)
        onSpawnTile == StateForkInEffect(s, FORK_TIMESAVE) /\ ch.loot > 0
                       /\ IsInsideMap(ch.coord[1], ch.coord[2]) /\ ch.coord \in TsPlayerTiles
        nTax == IF w.g.Cache_min_version >= 2020700 THEN 0 ELSE CDiv(ch.loot, 10)
    IN IF (ch.loot > 0 /\ IsBank(s, ch.coord)) \/ onSpawnTile
       THEN [w EXCEPT
               !.res.nTaxAmount = @ + nTax,
               !.res.bounties = Append(@, CollectedBounty(k[1], k[2], ch.loot - nTax, FALSE,
                                                          s.players[k[1]].address)),
               !.s = SetChar(s, k, [ch EXCEPT !.loot = 0]),
               !.fault = @ \/ s.banks = EmptyMap]
       ELSE [w EXCEPT !.fault = @ \/ (ch.loot > 0 /\ s.banks = EmptyMap)]

\* the banking loop of PerformStep for character k
Bank_Character(w, k) ==
    LET s == w.s
        ch == GetChar(s, k)
        onSpawnTile == StateForkInEffect(s, FORK_TIMESAVE) /\ ch.loot > 0
                       /\ IsInsideMap(ch.coord[1], ch.coord[2]) /\ ch.coord \in TsPlayerTiles
        banks == (ch.loot > 0 /\ IsBank(s, ch.coord)) \/ onSpawnTile
        nTax == IF w.g.Cache_min_version >= 2020700 THEN 0 ELSE CDiv(ch.loot, 10)
    IN IF "STASIS" \in ch.ai_state2 THEN w
       ELSE IF banks
       THEN [w EXCEPT
               !.res.nTaxAmount = @ + nTax,
               !.res.bounties = Append(@, CollectedBounty(k[1], k[2], ch.loot - nTax, FALSE,
                                                          s.players[k[1]].address)),
               !.s = SetChar(s, k, [ch EXCEPT !.loot = 0]),
               !.fault = @ \/ s.banks = EmptyMap]
       ELSE [w EXCEPT !.fault = @ \/ (ch.loot > 0 /\ s.banks = EmptyMap)]

Banking(w) == FoldSeq(Bank_Character, w, CharKeys(w.s))

\* GetCarryingCapacity: unlimited
GetCarryingCapacity(s, isGeneral, isCrownHolder) == -1

\* a free capacity that is not raised to 0 when the character carries more
\* than allowed
CollectLootNoClamp(loot, nAmount, carryCap) ==
    LET freeCap == carryCap - loot
        remaining == IF carryCap = -1 \/ nAmount <= freeCap THEN 0 ELSE nAmount - freeCap
    IN [loot |-> loot + (nAmount - remaining), remaining |-> remaining]

\* CharacterState::CollectLoot; the result is [loot, remaining]
CollectLoot(loot, nAmount, carryCap) ==
    LET freeCap == Max(carryCap - loot, 0)
        remaining == IF carryCap = -1 \/ nAmount <= freeCap THEN 0 ELSE nAmount - freeCap
    IN [loot |-> loot + (nAmount - remaining), remaining |-> remaining]

\* CharacterOnLootTile::GetRemainingCapacity
GetRemainingCapacity(carryCap, loot) ==
    IF carryCap = -1 THEN -1 ELSE IF carryCap < loot THEN 0 ELSE carryCap - loot

\* the collectors are compared by their remaining capacity only
CollectorLessByCapacity(a, b) ==
    IF a.rem = b.rem THEN FALSE
    ELSE IF a.rem = -1 THEN FALSE
    ELSE IF b.rem = -1 THEN TRUE
    ELSE a.rem < b.rem

\* operator< of CharacterOnLootTile on a = [k, rem]
CollectorLess(a, b) ==
    IF a.rem = b.rem
    THEN (IF a.k[1] # b.k[1] THEN a.k[1] < b.k[1] ELSE a.k[2] < b.k[2])
    ELSE IF a.rem = -1 THEN FALSE
    ELSE IF b.rem = -1 THEN TRUE
    ELSE a.rem < b.rem

\* std::sort (collectors.begin (), collectors.end ()): every collector of the
\* vector is put before the first one that it is less than
SortCollectors(collectors) ==
    FoldSeq(LAMBDA sorted, a :
                LET n == Cardinality({i \in 1..Len(sorted) :
                                         \A j \in 1..i : ~CollectorLess(a, sorted[j])})
                IN SubSeq(sorted, 1, n) \o <<a>> \o SubSeq(sorted, n + 1, Len(sorted)),
            <<>>, collectors)

\* a character on this tile does not collect (ghosting with phasing-in)
Ghosted(s, c) ==
    StateForkInEffect(s, FORK_TIMESAVE)
    /\ \/ ((c[1] % 2) + (c[2] % 2) > 1 /\ s.nHeight % 500 >= 300)
       \/ ((c[1] % 2) + (c[2] % 2) > 0 /\ s.nHeight % 500 >= 450)
       \/ s.nHeight % 500 >= 480

\* the two loops of GameState::DivideLootAmongPlayers on the characters in
\* the order keys of their enumeration; offers lists what each collector was
\* offered, in the order of the service
DivideInOrder(s, keys) ==
    LET isHolder(k) == k[1] = s.crownHolder.player /\ k[2] = s.crownHolder.index
        collects(k) == ~Ghosted(s, GetChar(s, k).coord)
                       /\ GetChar(s, k).coord \in DOMAIN s.loot
        on == {keys[j] : j \in {i \in 1..Len(keys) : collects(keys[i])}}
        tileChar(k) ==
            [k |-> k, cap |-> GetCarryingCapacity(s, k[2] = 0, isHolder(k)),
             rem |-> GetRemainingCapacity(GetCarryingCapacity(s, k[2] = 0, isHolder(k)),
                                          GetChar(s, k).loot)]
        collectors == SortCollectors(
            FoldSeq(LAMBDA acc, k : IF collects(k) THEN Append(acc, tileChar(k)) ELSE acc,
                    <<>>, keys))
        count0 == [c \in {GetChar(s, k).coord : k \in on} |->
                      Cardinality({k \in on : GetChar(s, k).coord = c})]
        take(acc, col) ==
            LET ch == GetChar(acc.s, col.k)
                c == ch.coord
                onTile == IF c \in DOMAIN acc.s.loot THEN acc.s.loot[c] ELSE 0
                share == CDiv(onTile, acc.count[c])
                got == CollectLoot(ch.loot, share, col.cap)
                s1 == SetChar(acc.s, col.k, [ch EXCEPT !.loot = got.loot])
            IN [s |-> IF share > 0 THEN AddLoot(s1, c, got.remaining - share) ELSE acc.s,
                count |-> [acc.count EXCEPT ![c] = @ - 1],
                offers |-> Append(acc.offers, [k |-> col.k, rem |-> col.rem, coord |-> c,
                                               share |-> share])]
    IN FoldSeq(take, [s |-> s, count |-> count0, offers |-> <<>>], collectors)

\* GameState::DivideLootAmongPlayers: the maps of the players and of their
\* characters are enumerated in the order of their keys
DivideLootAmongPlayers(s) == DivideInOrder(s, CharKeys(s)).s

\* the bonus is collected by the general of the player that holds the crown
CrownBonusToGeneral(s, nAmount) ==
    LET h == s.crownHolder
        k == <<h.player, 0>>
        got == CollectLoot(GetChar(s, k).loot, nAmount, GetCarryingCapacity(s, TRUE, TRUE))
    IN IF h.player # NoPlayer
       THEN [SetChar(s, k, [GetChar(s, k) EXCEPT !.loot = got.loot])
                EXCEPT !.gameFund = @ + got.remaining]
       ELSE [s EXCEPT !.gameFund = @ + nAmount]

\* GameState::CrownBonus; the subscripts of the two maps insert a default
\* entry for a holder that is not there
CrownBonus(s, nAmount) ==
    LET h == s.crownHolder
        k == <<h.player, h.index>>
        s0 == IF h.player \in DOMAIN s.players THEN s
              ELSE [s EXCEPT !.players = MapPut(@, h.player, NewPlayer)]
        s1 == IF HasChar(s0, k) THEN s0
              ELSE [s0 EXCEPT !.players[h.player].characters =
                                  MapPut(@, h.index, NewCharacter)]
        got == CollectLoot(GetChar(s1, k).loot, nAmount,
                           GetCarryingCapacity(s1, h.index = 0, TRUE))
    IN IF h.player # NoPlayer
       THEN [SetChar(s1, k, [GetChar(s1, k) EXCEPT !.loot = got.loot])
                EXCEPT !.gameFund = @ + got.remaining]
       ELSE [s EXCEPT !.gameFund = @ + nAmount]


---------------------------------------------------------------------------
(* The passes that draw from the block hash.                               *)

\* harvest areas: the tiles of each area and its portion of the treasure
HarvestAreas == << <<<<203, 239>>, <<204, 240>>>>, <<<<295, 218>>, <<296, 219>>>>,
                   <<<<265, 300>>, <<215, 293>>>> >>
HarvestPortions == <<300, 300, 275>>
TOTAL_HARVEST == 900
CrownSpawn == <<CROWN_START, <<251, 250>>>>

\* the rule of the time between two disasters that follows the return
DisasterByTime(r) ==
    IF ~StateForkInEffect(r.s, FORK_POISON) THEN FALSE
    ELSE IF r.s.nHeight - r.s.nDisasterHeight < PDISASTER_MIN_TIME THEN FALSE
    ELSE IF r.s.nHeight - r.s.nDisasterHeight >= PDISASTER_MAX_TIME THEN TRUE
    ELSE GetIntRnd(r.rnd, PDISASTER_PROBABILITY) = 0

\* GameState::CheckForDisaster: "custom disaster chance"
CheckForDisaster(r) == FALSE

\* GameState::ApplyDisaster; r = [s, rnd, fault]
ApplyDisaster(r) ==
    LET poison(acc, p) ==
            [s |-> [acc.s EXCEPT !.players[p].remainingLife =
                                     GetIntRnd2(acc.rnd, POISON_MIN_LIFE, POISON_MAX_LIFE)],
             rnd |-> RndAdvance(acc.rnd),
             fault |-> acc.fault \/ acc.s.players[p].remainingLife # -1]
        d == FoldSeq(poison, r, SortInts(DOMAIN r.s.players))
    IN [d EXCEPT !.s.hearts = IF StateForkInEffect(r.s, FORK_LESSHEARTS) THEN {} ELSE @,
                 !.s.nDisasterHeight = r.s.nHeight]

\* "Decide about whether or not this will be a disaster"
Disaster(r) == IF CheckForDisaster(r) THEN ApplyDisaster(r) ELSE r

\* "Drop a random rewards onto the harvest areas"; r = [s, rnd, fault]
DropTreasure(r, nTreasureAmount) ==
    LET nCrownBonus == CDiv(CROWN_BONUS * nTreasureAmount, TOTAL_HARVEST)
        drop(acc, i) ==
            LET a == GetIntRnd(acc.rnd, Len(HarvestAreas[i]))
                nTreasure == CDiv(HarvestPortions[i] * nTreasureAmount, TOTAL_HARVEST)
            IN [s |-> AddLoot(acc.s, HarvestAreas[i][a + 1], nTreasure),
                rnd |-> RndAdvance(acc.rnd), total |-> acc.total + nTreasure]
        d == FoldSeq(drop, [s |-> r.s, rnd |-> r.rnd, total |-> 0],
                     [i \in 1..Len(HarvestAreas) |-> i])
    IN [s |-> d.s, rnd |-> d.rnd,
        fault |-> r.fault \/ d.total + nCrownBonus # nTreasureAmount]

\* the dynamic checkpoint; r = [s, g]
DynamicCheckpoint(r) ==
    LET s == r.s
        gg == r.g
        older == s.nHeight > gg.Gamecache_dyncheckpointheight1
    IN IF s.hashBlock # NullHash /\ s.nHeight % 500 = 0
          /\ s.nHeight >= gg.Gamecache_dyncheckpointheight1
       THEN [s |-> [s EXCEPT
                      !.dcpoint_height2 = IF older THEN gg.Gamecache_dyncheckpointheight1 ELSE @,
                      !.dcpoint_hash2 = IF older THEN gg.Gamecache_dyncheckpointhash1 ELSE @,
                      !.dcpoint_height1 = s.nHeight, !.dcpoint_hash1 = s.hashBlock],
             g |-> [gg EXCEPT
                      !.Gamecache_dyncheckpointheight2 =
                          IF older THEN gg.Gamecache_dyncheckpointheight1 ELSE @,
                      !.Gamecache_dyncheckpointhash2 =
                          IF older THEN gg.Gamecache_dyncheckpointhash1 ELSE @,
                      !.Gamecache_dyncheckpointheight1 = s.nHeight,
                      !.Gamecache_dyncheckpointhash1 = s.hashBlock]]
       ELSE r

\* options[ind] of the bank spawn tiles from which the tiles of taken are erased
TsBankOption(ind, taken) ==
    LET opts == {<<x, y>> : x \in TsBankLow..TsBankHigh, y \in TsBankLow..TsBankHigh} \ taken
    IN CHOOSE c \in opts : Cardinality({d \in opts : CoordLess(d, c)}) = ind

\* a life of up to twice the maximum
LongBankLife(rnd) == GetIntRnd2(rnd, DYNBANKS_MIN_LIFE, 2 * DYNBANKS_MAX_LIFE)

\* the life that UpdateBanks draws for a bank it creates
NewBankLife(rnd) == GetIntRnd2(rnd, DYNBANKS_MIN_LIFE, DYNBANKS_MAX_LIFE)

\* banks that are never updated
KeepBanks(r) == r

\* GameState::UpdateBanks; r = [s, rnd, fault]
UpdateBanks(r) ==
    LET s == r.s
        atFork == IsForkHeight(FORK_LIFESTEAL, s.nHeight)
        reset == atFork \/ IsForkHeight(FORK_TIMESAVE, s.nHeight)
        newBanks == IF reset THEN EmptyMap
                    ELSE [c \in {b \in DOMAIN s.banks : s.banks[b] > 1} |-> s.banks[c] - 1]
        ts == StateForkInEffect(s, FORK_TIMESAVE)
        numOptions == IF ts THEN TsBankSide * TsBankSide - Cardinality(DOMAIN newBanks)
                      ELSE NumWalkableTiles - Cardinality(DOMAIN newBanks)
        create(acc, cnt) ==
            LET ind == GetIntRnd(acc.rnd, numOptions - (cnt - 1))
                life == NewBankLife(RndAdvance(acc.rnd))
                c == IF ts THEN TsBankOption(ind, DOMAIN acc.banks)
                     ELSE NthFree(ind, DOMAIN acc.banks, ind)
            IN [banks |-> MapPut(acc.banks, c, life), rnd |-> RndAdvance(RndAdvance(acc.rnd))]
        missing == DYNBANKS_NUM_BANKS - Cardinality(DOMAIN newBanks)
        bad == \/ (~atFork /\ (Cardinality(DOMAIN s.banks) # DYNBANKS_NUM_BANKS
                               \/ \E b \in DOMAIN s.banks : s.banks[b] < 1))
               \/ \E b \in DOMAIN newBanks :
                     IF ts THEN ~IsTsBankTile(b) ELSE ~IsWalkable(b[1], b[2])
        made == FoldSeq(create, [banks |-> newBanks, rnd |-> r.rnd],
                        [i \in 1..missing |-> i])
    IN IF ~StateForkInEffect(s, FORK_LIFESTEAL) THEN r
       ELSE IF bad THEN [r EXCEPT !.fault = TRUE]
       ELSE [s |-> [s EXCEPT !.banks = made.banks], rnd |-> made.rnd, fault |-> r.fault]


\* a tile from which a point of interest is at most 12 steps away (the
\* distance is measured on the open map)
NearPOI(c) ==
    \E q \in POI_normal :
        LET d == Max(Abs(c[1] - q[1]), Abs(c[2] - q[2])) IN d > 0 /\ d <= 12

\* "custom heart spawn"; r = [s, rnd, fault]
DropHeart(r, gg) ==
    LET heart == <<GetIntRnd(r.rnd, MAP_WIDTH), GetIntRnd(RndAdvance(r.rnd), MAP_HEIGHT)>>
        is_near_poi == IsInsideMap(heart[1], heart[2]) /\ IsWalkable(heart[1], heart[2])
                       /\ NearPOI(heart)
    IN IF ~gg.Rpg_hearts_spawn THEN r
       ELSE IF StateForkInEffect(r.s, FORK_LIFESTEAL) THEN [r EXCEPT !.fault = TRUE]
       ELSE [r EXCEPT !.s.hearts = IF is_near_poi THEN @ \cup {heart} ELSE @,
                      !.rnd = RndAdvance(RndAdvance(@))]

RECURSIVE PickCollector(_, _, _)
\* the loop of CollectHearts that draws a player who can still spawn a
\* character from the players v on a heart tile; i = -1 when there is none
PickCollector(v, s, rnd) ==
    LET n == Len(v)
        i == IF n = 1 THEN 0 ELSE GetIntRnd(rnd, n)
        rnd1 == IF n = 1 THEN rnd ELSE RndAdvance(rnd)
    IN IF n = 0 THEN [i |-> -1, p |-> NoPlayer, rnd |-> rnd]
       ELSE IF CanSpawnCharacter(s.players[v[i + 1]]) THEN [i |-> i, p |-> v[i + 1], rnd |-> rnd1]
       ELSE PickCollector(SubSeq(v, 1, i) \o SubSeq(v, i + 2, n), s, rnd1)

\* CollectHearts: the part that follows sp
CollectHearts_sp(c, acc, pick, sp) ==
    IF pick.i >= 0
    THEN [acc EXCEPT !.s = [sp.s EXCEPT !.hearts = @ \ {c}], !.rnd = sp.rnd]
    ELSE [acc EXCEPT !.rnd = pick.rnd]

\* GameState::CollectHearts; r = [s, rnd, fault]
CollectHearts(r) ==
    LET s0 == r.s
        able == {p \in DOMAIN s0.players : CanSpawnCharacter(s0.players[p])}
        onTile(c) == SelectSeq(CharKeys(s0),
                               LAMBDA k : k[1] \in able /\ GetChar(s0, k).coord = c)
        tiles == SortCoords({c \in s0.hearts : Len(onTile(c)) > 0})
        collect(acc, c) ==
            LET v == [j \in 1..Len(onTile(c)) |-> onTile(c)[j][1]]
                pick == PickCollector(v, acc.s, acc.rnd)
            IN CollectHearts_sp(c, acc, pick, SpawnCharacter(acc.s, pick.p, pick.rnd))
    IN FoldSeq(collect, r, tiles)

\* GameState::CollectCrown; r = [s, rnd, fault]
CollectCrown(r, respawn_crown) ==
    LET s == r.s
        a == GetIntRnd(r.rnd, Len(CrownSpawn))
        pos == IF respawn_crown THEN CrownSpawn[a + 1] ELSE s.crownPos
        rnd1 == IF respawn_crown THEN RndAdvance(r.rnd) ELSE r.rnd
        charactersOnCrownTile == SelectSeq(CharKeys(s), LAMBDA k : GetChar(s, k).coord = pos)
        n == Len(charactersOnCrownTile)
        i == IF n = 1 THEN 0 ELSE GetIntRnd(rnd1, n)
        k == charactersOnCrownTile[i + 1]
    IN IF s.crownHolder.player # NoPlayer THEN [r EXCEPT !.fault = @ \/ respawn_crown]
       ELSE IF n = 0 THEN [r EXCEPT !.s.crownPos = pos, !.rnd = rnd1]
       ELSE [r EXCEPT !.s.crownPos = pos, !.s.crownHolder = [player |-> k[1], index |-> k[2]],
                      !.rnd = IF n = 1 THEN rnd1 ELSE RndAdvance(rnd1)]

\* an update of the addresses that also charges a coin of tax
UpdateAddressTaxed(res, s) == [res EXCEPT !.nTaxAmount = @ + 1]

\* CollectedBounty::UpdateAddress for all bounties of the step
UpdateAddress(res, s) ==
    LET b == res.bounties
    IN [res EXCEPT !.bounties =
           [j \in 1..Len(b) |->
               IF b[j].player \in DOMAIN s.players
               THEN [b[j] EXCEPT !.address = s.players[b[j].player].address] ELSE b[j]]]


---------------------------------------------------------------------------
(* Game states from which the steps start.                                 *)

Hunter(c, loot) ==
    [NewCharacter EXCEPT !.coord = c, !.from = c, !.loot = loot, !.dir = 2,
                         !.aux_spawn_block = 1]
Npc(role, c, loot) == [Hunter(c, loot) EXCEPT !.ai_npc_role = role]
Owner(color, value, chars) ==
    [NewPlayer EXCEPT !.color = color, !.value = value, !.lockedCoins = value,
                      !.characters = chars,
                      !.next_character_index = Cardinality(DOMAIN chars)]
Single(ch) == [i \in {0} |-> ch]
AtHeight(h) == [ConstructedState EXCEPT !.nHeight = h, !.hashBlock = 11]

\* the merchants of the yellow team, each the general of a player of its own
YellowMerchants == {nm \in 1..MERCH_NORMAL_LAST : Merchant_color[nm] = 0}
MerchantOwner(nm) == 100 + nm
MerchantPlayers(lootOf) ==
    [p \in {MerchantOwner(nm) : nm \in YellowMerchants} |->
        Owner(0, 3000, Single(Npc(p - 100, Merchant_base(p - 100), lootOf[p - 100])))]

\* end of a voting round: player 1 votes for the request of player 2, the
\* merchant that pays has the loot devLoot
VotingState(minVersion, comment, devLoot, victimFlags, victimLocked) ==
    LET humans ==
            [p \in {1, 2, 50} |->
                CASE p = 1 -> [Owner(0, 3000, Single([Hunter(<<20, 10>>, 1000) EXCEPT
                                                        !.aux_spawn_block = 28000]))
                                  EXCEPT !.msg_vote = Text(3, 0), !.msg_vote_block = 25000,
                                         !.coins_vote = 3 * COIN]
                  [] p = 2 -> [Owner(0, 3000, Single([Hunter(<<60, 60>>, 40) EXCEPT
                                                        !.ai_state2 = victimFlags]))
                                  EXCEPT !.lockedCoins = victimLocked, !.address = 2]
                  [] OTHER -> Owner(0, 3000, Single(Npc(MONSTER_REAPER, <<70, 90>>, 0)))]
        merchants == MerchantPlayers([nm \in YellowMerchants |->
                                         IF nm = MERCH_NORMAL_FIRST THEN 5 * COIN
                                         ELSE IF nm = MERCH_INFO_DEVMODE THEN devLoot ELSE 0])
    IN [AtHeight(29999) EXCEPT
          !.players = [p \in DOMAIN humans \cup DOMAIN merchants |->
                          IF p \in DOMAIN humans THEN humans[p] ELSE merchants[p]],
          !.dao_MinVersion = minVersion,
          !.dao_BestRequestFinal = 3 * COIN, !.dao_BestFeeFinal = 10,
          !.dao_BestNameFinal = 2, !.dao_BestCommentFinal = comment,
          !.dao_IntervalMonsterApocalypse = MIN_GAMEROUND_DURATION,
          !.dcpoint_height1 = 29500, !.dcpoint_hash1 = 12,
          !.gameFund = 5000]

\* the general of player 2 has been hit, player 2 has a second character and
\* there are as many monsters as hunters
DyingGeneralState ==
    [VotingState(STATE_VERSION, "", 4 * COIN, {"DEATH_DEATH"}, 3050) EXCEPT
       !.players[2].characters = [i \in {0, 1} |-> IF i = 0 THEN @[0] ELSE Hunter(<<64, 60>>, 10)],
       !.players[2].next_character_index = 2,
       !.players[50].characters = [i \in {0, 1} |-> Npc(MONSTER_REAPER, <<70 + 2 * i, 90>>, 0)],
       !.players[50].next_character_index = 2]

\* a player with 19 characters of which two stand on hearts, a player that
\* has used up 999 character indices, and a dynamic checkpoint at height 500
HeartTiles == {<<205, 240>>, <<207, 240>>, <<300, 220>>}
HeartState ==
    LET many == [i \in 0..18 |-> Hunter(<<203 + i, 240>>, IF i = 0 THEN 250 ELSE 0)]
    IN [AtHeight(999) EXCEPT
          !.players = [p \in {1, 2} |->
                          IF p = 1 THEN Owner(0, 10000, many)
                          ELSE [Owner(1, 10000, Single(Hunter(<<300, 220>>, 0)))
                                   EXCEPT !.next_character_index =
                                              MAX_CHARACTERS_PER_PLAYER_TOTAL - 1]],
          !.hearts = HeartTiles,
          !.loot = [c \in {<<204, 240>>} |-> 30],
          !.dao_IntervalMonsterApocalypse = MIN_GAMEROUND_DURATION,
          !.dcpoint_height1 = 500, !.dcpoint_hash1 = 12,
          !.gameFund = 700]

\* the block before the life-steal fork: three generals, one of them with a
\* hearted character and one carrying loot on a bank
LifeStealState ==
    [AtHeight(FORK_LIFESTEAL - 1) EXCEPT
       !.players = [p \in {1, 2, 3} |->
                       CASE p = 1 -> Owner(0, 2000, [i \in {0, 1} |->
                                                        Hunter(<<20 + i, 10>>, 100 * i)])
                         [] p = 2 -> Owner(1, 2000, Single(Hunter(<<MAP_WIDTH - 1, 3>>, 60)))
                         [] OTHER -> Owner(2, 2000, Single(Hunter(<<480, 490>>, 0)))],
       !.dao_IntervalMonsterApocalypse = MIN_GAMEROUND_DURATION,
       !.dcpoint_height1 = 35000, !.dcpoint_hash1 = 12,
       !.gameFund = 900]

\* after the fork that moves the banks onto the bank spawn tiles; some banks
\* are about to expire
TimeSaveBanks ==
    [c \in {t \in {<<x, y>> : x \in TsBankLow..TsBankHigh, y \in TsBankLow..(TsBankHigh - 2)} :
               t[2] < TsBankHigh - 2 \/ t[1] < TsBankLow + 5}
       |-> IF c[1] = TsBankLow THEN 1 ELSE IF c[1] = TsBankLow + 1 THEN 2 ELSE 40]
TimeSaveState ==
    [AtHeight(FORK_TIMESAVE) EXCEPT
       !.players = [p \in {1, 2, 3, 4} |->
                       CASE p = 1 -> Owner(0, 2000, [i \in {0, 1} |->
                                                        Hunter(<<20 + 11 * i, 10 + 21 * i>>, 45 * i)])
                         [] p = 2 -> Owner(1, 2000, Single(Hunter(<<TsBankLow + 2, TsBankLow>>, 60)))
                         [] p = 3 -> Owner(2, 2000, Single(Hunter(<<480, 490>>, 0)))
                         [] OTHER -> Owner(3, 2000, Single(Hunter(<<200, 200>>, 0)))],
       !.banks = TimeSaveBanks,
       !.dao_IntervalMonsterApocalypse = MIN_GAMEROUND_DURATION,
       !.dcpoint_height1 = 40000, !.dcpoint_hash1 = 12,
       !.gameFund = 900]

\* ten blocks after a disaster: players 1 and 2 are poisoned and have two
\* blocks and one block left, player 3 has joined after the disaster
PoisonState ==
    [AtHeight(FORK_POISON + 500) EXCEPT
       !.nDisasterHeight = FORK_POISON + 490,
       !.players = [p \in {1, 2, 3} |->
                       CASE p = 1 -> [Owner(0, 2000, Single(Hunter(<<20, 10>>, 0)))
                                         EXCEPT !.remainingLife = 2]
                         [] p = 2 -> [Owner(1, 2000, Single(Hunter(<<480, 20>>, 60)))
                                         EXCEPT !.remainingLife = 1]
                         [] OTHER -> Owner(2, 2000, Single(Hunter(<<480, 490>>, 0)))],
       !.dao_IntervalMonsterApocalypse = MIN_GAMEROUND_DURATION,
       !.dcpoint_height1 = 31000, !.dcpoint_hash1 = 12,
       !.gameFund = 900]

\* two generals of different colours next to each other, one of them with a
\* second character that holds the crown apart from the fight, the other one about
\* to make a random move, a general on the entry of a teleporter, a general
\* that is told to escape, a general without rations and a merchant away from
\* its base
BattleState ==
    [AtHeight(FORK_POISON + 100) EXCEPT
       !.players = [p \in {1, 2, 3, 4, 5, MerchantOwner(MERCH_NORMAL_FIRST)} |->
                       CASE p = 1 -> Owner(0, 2000, [i \in {0, 1} |->
                                                        Hunter(<<120 + 40 * i, 120>>, 40)])
                         [] p = 2 -> Owner(1, 2000, Single([Hunter(<<121, 120>>, 60) EXCEPT
                                                              !.ai_idle_time = 4]))
                         [] p = 3 -> Owner(2, 2000, Single(Hunter(POI_pos_a[1], 0)))
                         [] p = 4 -> Owner(3, 2000, Single([Hunter(<<300, 300>>, 0) EXCEPT
                                                              !.ai_state2 = {"ESCAPE"}]))
                         [] p = 5 -> Owner(3, 2000, Single([Hunter(<<200, 200>>, 0) EXCEPT
                                                              !.rpg_rations = -1]))
                         [] OTHER -> Owner(0, 3000, Single(Npc(MERCH_NORMAL_FIRST,
                                                               <<200, 210>>, 0)))],
       !.crownHolder = [player |-> 1, index |-> 1], !.crownPos = <<160, 120>>,
       !.dao_IntervalMonsterApocalypse = MIN_GAMEROUND_DURATION,
       !.dcpoint_height1 = 31000, !.dcpoint_hash1 = 12,
       !.gameFund = 900]

\* characters that have been on a bank for st blocks and more: a general and
\* its second character, which carries loot, a general in stasis with loot,
\* and a general that has left the bank in the block before, with a second
\* character on the perimeter of the base of another colour, which eats its
\* last ration in the block after the next one, next to a general in stasis
\* of a fourth colour
BankStayState(h, st) ==
    LET Fed(c, stay) == [Hunter(c, 0) EXCEPT !.stay_in_spawn_area = stay, !.rpg_rations = 10]
        Hungry(c) == [Hunter(c, 0) EXCEPT
                        !.rpg_rations = 0,
                        !.aux_spawn_block = h + 2 - RPG_INTERVAL_MONSTERAPOCALYPSE]
    IN [AtHeight(h) EXCEPT
          !.players = [p \in {1, 2, 3, 4} |->
                          CASE p = 1 -> Owner(0, 2000, [i \in {0, 1} |->
                                                           [Fed(<<0, 5 + i>>, st + i) EXCEPT
                                                              !.loot = 33 * i]])
                            [] p = 2 -> Owner(1, 2000, Single([Fed(<<5, 0>>, st + 1) EXCEPT
                                                                 !.ai_state2 = {"STASIS"},
                                                                 !.loot = 50]))
                            [] p = 3 -> Owner(2, 2000, [i \in {0, 1} |->
                                                           IF i = 0 THEN Fed(<<120, 120>>, st)
                                                           ELSE Hungry(<<22, 20>>)])
                            [] OTHER -> Owner(3, 2000, Single([Fed(<<121, 121>>, 0) EXCEPT
                                                                 !.ai_state2 = {"STASIS"}]))],
          !.dao_IntervalMonsterApocalypse = MIN_GAMEROUND_DURATION,
          !.dcpoint_height1 = h - 100, !.dcpoint_hash1 = 12,
          !.gameFund = 900]

\* characters that were hit in the block before: a general inside the yellow
\* safe zone, with a second character, next to a general of another colour
\* outside of it, generals with
\* a Life Saving ring (one of them can pay for it), with a Life Saving amulet
\* and with both, the merchant of the ring, and a green general on the
\* perimeter of the yellow base while the green team misses a merchant; the
\* voting round that ends has a best request
LifeSaverState ==
    LET base == VotingState(STATE_VERSION, "", 4 * COIN, {}, 3000)
        Hit(c, loot, ring, amulet) ==
            [Hunter(c, loot) EXCEPT !.ai_state2 = {"DEATH_FIRE"}, !.ai_slot_ring = ring,
                                    !.ai_slot_amulet = amulet]
        hit == [p \in 3..9 |->
                   CASE p = 3 -> Owner(0, 2000, [i \in {0, 1} |->
                                                    IF i = 0 THEN Hit(<<22, 21>>, 0, 0, 0)
                                                    ELSE Hunter(<<23, 20>>, 0)])
                     [] p = 4 -> Owner(0, 2000, Single(Hit(<<110, 100>>, 150, AI_ITEM_LIFE_SAVING, 0)))
                     [] p = 5 -> Owner(0, 2000, Single(Hit(<<114, 100>>, 0, 0, AI_ITEM_LIFE_SAVING)))
                     [] p = 6 -> Owner(0, 2000, Single(Hit(<<118, 100>>, PRICE_RING_IMMORTALITY * COIN + 50,
                                                           AI_ITEM_LIFE_SAVING, 0)))
                     [] p = 7 -> Owner(0, 2000, Single(Hit(<<122, 100>>, 0, AI_ITEM_LIFE_SAVING,
                                                           AI_ITEM_LIFE_SAVING)))
                     [] p = 8 -> Owner(1, 2000, Single(Hunter(<<23, 21>>, 0)))
                     [] OTHER -> Owner(2, 2000, Single([Hunter(<<20, 22>>, 0) EXCEPT
                                                          !.ai_state2 = {"DEATH_DEATH"}]))]
        ringOwner == MerchantOwner(MERCH_RING_IMMORTALITY)
    IN [base EXCEPT
          !.dao_BestFee = 30, !.dao_BestRequest = 2 * COIN, !.dao_BestName = 2,
          !.dao_BestComment = "Upkeep shall be lower!",
          !.players = [p \in DOMAIN @ \cup DOMAIN hit \cup {ringOwner} |->
                          IF p \in DOMAIN hit THEN hit[p]
                          ELSE IF p = ringOwner
                          THEN Owner(Merchant_color[MERCH_RING_IMMORTALITY], 3000,
                                     Single(Npc(MERCH_RING_IMMORTALITY,
                                                Merchant_base(MERCH_RING_IMMORTALITY), 0)))
                          ELSE @[p]]]

\* nine blocks into a voting round with the best request of player 2 and its
\* fee bestFee; player 1 has filed a request with the fee 50 in the block before
RequestState(bestFee) ==
    LET base == VotingState(STATE_VERSION, "", 4 * COIN, {}, 3000)
        h == base.nHeight + 10
    IN [base EXCEPT
          !.nHeight = h,
          !.dao_BestFee = bestFee, !.dao_BestRequest = 2 * COIN, !.dao_BestName = 2,
          !.dao_BestComment = "Upkeep shall be lower!",
          !.players[1].msg_request = Text(3, 0), !.players[1].msg_fee = Text(0, 50),
          !.players[1].msg_comment = "All nodes must upgrade!",
          !.players[1].msg_request_block = h]

\* end of a voting round with two dungeon levels: players that have asked
\* for another level in the block before (3: general in stasis, 4: general
\* out of stasis, 5: on the upper level, 6: asks for a level that does not
\* exist, 7: general in stasis and a second character that is not) and one
\* that has asked a block earlier (8)
DlevelState(comment) ==
    LET base == VotingState(STATE_VERSION, comment, 4 * COIN, {}, 3000)
        Sleeper == [Hunter(Merchant_base(MERCH_STASIS), 0) EXCEPT
                      !.ai_state2 = {"STASIS"}, !.rpg_rations = 10,
                      !.aux_stasis_block = 29000]
        Walker(c) == [Hunter(c, 0) EXCEPT !.rpg_rations = 10]
        Asks(pl, level, block) ==
            [pl EXCEPT !.msg_dlevel = Text(level, 0), !.msg_dlevel_block = block]
        travellers ==
            [p \in 3..8 |->
                CASE p = 3 -> Asks(Owner(1, 2000, Single(Sleeper)), 1, base.nHeight)
                  [] p = 4 -> Asks(Owner(1, 2000, Single(Walker(<<240, 240>>))), 1, base.nHeight)
                  [] p = 5 -> [Asks(Owner(2, 2000, Single(Sleeper)), 0, base.nHeight)
                                 EXCEPT !.dlevel = 1]
                  [] p = 6 -> Asks(Owner(2, 2000, Single(Sleeper)), 3, base.nHeight)
                  [] p = 7 -> Asks(Owner(3, 2000, [i \in {0, 1} |->
                                                      IF i = 0 THEN Sleeper
                                                      ELSE Walker(<<260, 260>>)]),
                                   1, base.nHeight)
                  [] OTHER -> Asks(Owner(3, 2000, Single(Sleeper)), 1, base.nHeight - 1)]
    IN [base EXCEPT
          !.players = [p \in DOMAIN base.players \cup DOMAIN travellers |->
                          IF p \in DOMAIN travellers THEN travellers[p] ELSE base.players[p]],
          !.dao_DlevelMax = 1]

\* six blocks after the life-steal fork: three generals and the banks that
\* the blocks since the fork have left
LifeStealRoundState ==
    [AtHeight(FORK_LIFESTEAL + 6) EXCEPT
       !.players = [p \in {1, 2, 3} |->
                       Owner(p - 1, 2000, Single(Hunter(<<230 + 10 * p, 240>>, 10 * p)))],
       !.banks = [c \in {<<x, 300>> : x \in 101..(100 + DYNBANKS_NUM_BANKS)} |-> 40],
       !.dao_IntervalMonsterApocalypse = MIN_GAMEROUND_DURATION,
       !.dcpoint_height1 = 35000, !.dcpoint_hash1 = 12,
       !.gameFund = 900]

\* a general that holds the crown, a general of another colour (on the tile
\* of the holder unless that is next to the bank) and a third general on a
\* tile on which the crown can spawn: the holder dies of poison in the next
\* block ("poisoned"), is one step away from a bank ("banker") or walks on
\* the map ("walker")
CrownState(fate) ==
    LET at == IF fate = "banker" THEN <<1, 5>> ELSE <<160, 120>>
        to == IF fate = "banker" THEN <<0, 5>> ELSE <<162, 122>>
        Fed(c) == [Hunter(c, 0) EXCEPT !.rpg_rations = 10]
        holder == IF fate = "poisoned" THEN Fed(at)
                  ELSE [Fed(at) EXCEPT !.waypoints = <<to>>]
    IN [AtHeight(FORK_POISON + 100) EXCEPT
          !.players = [p \in {1, 2, 3} |->
                          CASE p = 1 -> [Owner(0, 2000, Single(holder)) EXCEPT
                                           !.remainingLife =
                                               IF fate = "poisoned" THEN 1 ELSE -1]
                            [] p = 2 -> Owner(1, 2000, Single(Fed(<<160, 120>>)))
                            [] OTHER -> Owner(2, 2000, Single(Fed(CrownSpawn[2])))],
          !.crownHolder = [player |-> 1, index |-> 0], !.crownPos = at,
          !.dao_IntervalMonsterApocalypse = MIN_GAMEROUND_DURATION,
          !.dcpoint_height1 = 31000, !.dcpoint_hash1 = 12,
          !.gameFund = 900]

Upgrade == "All nodes must upgrade!"
InitialStates ==
    {ConstructedState,
     VotingState(2020500, Upgrade, 4 * COIN, {}, 3000),
     VotingState(STATE_VERSION, Upgrade, 4 * COIN, {}, 3000),
     VotingState(STATE_VERSION, "", 10, {}, 3000),
     VotingState(STATE_VERSION, "", 4 * COIN, {"DEATH_DEATH"}, 3050),
     VotingState(STATE_VERSION + 100, "", 4 * COIN, {}, 3000),
     DyingGeneralState, HeartState, PoisonState, BattleState, LifeStealState, TimeSaveState,
     LifeSaverState, RequestState(30), RequestState(50),
     BankStayState(FORK_POISON + 200, STATE_MAX_STAY_IN_SPAWN_AREA - 1),
     BankStayState(FORK_CARRYINGCAP + 500, STATE_MAX_STAY_IN_SPAWN_AREA),
     BankStayState(FORK_LIFESTEAL - 1, 1),
     DlevelState("Spawn a new dungeon level!"), DlevelState("Erase a dungeon level!"),
     LifeStealRoundState,
     CrownState("poisoned"), CrownState("banker"), CrownState("walker")}


---------------------------------------------------------------------------
(* The steps offered to PerformStep.                                       *)

StepData(newHash, vMoves, nTreasureAmount) ==
    [newHash |-> newHash, vMoves |-> vMoves, nTreasureAmount |-> nTreasureAmount]

\* a new player of the yellow team paying the minimum
SpawnMove(s) ==
    LET m == [NewMove(7) EXCEPT !.color = 0, !.address = 7]
    IN [m EXCEPT !.newLocked = MinimumGameFee(m, s.nHeight + 1)]

\* player 1 raises its locked coins, sends its general to the next tile and
\* files a request
UpdateMove(s) ==
    LET known == 1 \in DOMAIN s.players /\ 0 \in DOMAIN s.players[1].characters
        c == IF known THEN s.players[1].characters[0].coord ELSE <<0, 0>>
        old == IF known THEN s.players[1].lockedCoins ELSE 0
    IN [NewMove(1) EXCEPT !.newLocked = old + 50,
                          !.waypoints = [i \in {0} |-> << <<c[1] + 1, c[2] + 1>> >>],
                          !.address = 5,
                          !.msg_request = Text(3, 0), !.msg_fee = Text(0, 50),
                          !.msg_comment = Upgrade, !.hasRequest = TRUE,
                          !.msg_vote = Text(3, 0), !.hasVote = TRUE]

\* player 1 destructs its general
DestructMove(s) ==
    LET m == [NewMove(1) EXCEPT !.destruct = {0}]
        old == IF 1 \in DOMAIN s.players THEN s.players[1].lockedCoins ELSE 0
    IN [m EXCEPT !.newLocked = old + MinimumGameFee(m, s.nHeight + 1)]

\* player 2 sends its general to the next tile
WakeMove(s) ==
    LET known == 2 \in DOMAIN s.players /\ 0 \in DOMAIN s.players[2].characters
        c == IF known THEN s.players[2].characters[0].coord ELSE <<0, 0>>
        old == IF known THEN s.players[2].lockedCoins ELSE 0
    IN [NewMove(2) EXCEPT !.newLocked = old,
                          !.waypoints = [i \in {0} |-> << <<c[1] + 1, c[2] + 1>> >>]]

\* a move of a player that does not exist
StrangerMove == NewMove(8)

NewHashes == {21, 22}

StepMenu(s) ==
    {StepData(NullHash, <<>>, 0), StepData(21, <<>>, 0),
     StepData(NullHash, <<>>, TOTAL_HARVEST), StepData(21, <<>>, TOTAL_HARVEST),
     StepData(22, <<>>, TOTAL_HARVEST),
     StepData(NullHash, <<SpawnMove(s)>>, 0), StepData(21, <<SpawnMove(s)>>, TOTAL_HARVEST),
     StepData(NullHash, <<UpdateMove(s)>>, TOTAL_HARVEST),
     StepData(21, <<UpdateMove(s)>>, TOTAL_HARVEST),
     StepData(21, <<StrangerMove>>, 0), StepData(21, <<WakeMove(s)>>, TOTAL_HARVEST),
     StepData(NullHash, <<DestructMove(s)>>, 0), StepData(21, <<DestructMove(s)>>, 0)}

---------------------------------------------------------------------------
(* PerformStep.                                                            *)

\* a validation that lets every move pass
AllAccepted(vMoves, s) == TRUE

\* the loop that validates the moves
AllValid(vMoves, s) == \A j \in 1..Len(vMoves) : IsValid(vMoves[j], s)

\* the first statements of PerformStep on the copy of inState
InitialiseStep(s, d) ==
    [s EXCEPT !.nHeight = @ + 1, !.hashBlock = d.newHash,
              !.dao_IntervalMonsterApocalypse = Max(@, MIN_GAMEROUND_DURATION)]

\* "Dungeon levels part 2" and the seed of the AI stream
CacheGameRound(gg, sOut, sIn) ==
    LET duration == sOut.dao_IntervalMonsterApocalypse
        timeslot == CDiv(duration, sOut.dao_DlevelMax + 1)
    IN [gg EXCEPT !.Cache_gameround_duration = duration,
                  !.Cache_timeslot_duration = timeslot,
                  !.nCalculatedActiveDlevel = CDiv(sOut.nHeight % duration, timeslot),
                  !.AI_rng_seed_hashblock = sIn.hashBlock]

\* a check of the version that never fails
NeverObsolete(s) == FALSE

\* the check of the version after the voting pass
IsObsolete(s) == STATE_VERSION < s.dao_MinVersion

\* no early return
NeverTaxOnly(s) == FALSE

\* the early return for the computation of the tax
IsTaxOnly(s) == s.hashBlock = NullHash

\* moneyOut of the step result
MoneyOut(res) == res.nTaxAmount + Sum([j \in 1..Len(res.bounties) |-> res.bounties[j].nAmount])

\* both sides of the comparison that closes PerformStep
MoneyLeft(sIn, d, moneyIn) == GetCoinsOnMap(sIn) + sIn.gameFund + d.nTreasureAmount + moneyIn
MoneyRight(sOut, res) == GetCoinsOnMap(sOut) + sOut.gameFund + MoneyOut(res)

\* a comparison that never fails
NeverMismatch(sIn, d, moneyIn, sOut, res) == FALSE

\* "total amount before and after step mismatch"
IsMismatch(sIn, d, moneyIn, sOut, res) == MoneyLeft(sIn, d, moneyIn) # MoneyRight(sOut, res)

NoCall == [valid |-> FALSE]
ThisCall(sIn, d, sOut, res, r) ==
    [valid |-> TRUE, inState |-> sIn, stepData |-> d, outState |-> sOut,
     stepResult |-> res, ret |-> r]

NewLocals(gg) ==
    [moneyIn |-> 0, respawn_crown |-> FALSE, trace |-> <<>>, g0 |-> gg,
     banked |-> ConstructedState, bankedResult |-> NewStepResult,
     divided |-> ConstructedState, spawnArea |-> ConstructedState,
     moved |-> ConstructedState, movedResult |-> NewStepResult,
     killed |-> ConstructedState, ranged |-> ConstructedState,
     pathed |-> ConstructedState, scanned |-> ConstructedState,
     waypointed |-> ConstructedState, fundBefore |-> 0, fundAfter |-> 0,
     spawnTax |-> 0]

Init ==
    /\ pc = "idle"
    /\ inState \in InitialStates
    /\ stepData = StepData(NullHash, <<>>, 0)
    /\ outState = ConstructedState
    /\ stepResult = NewStepResult
    /\ ret = "none"
    /\ g = InitialGlobals
    /\ loc = NewLocals(InitialGlobals)
    /\ memo = NoCall
    /\ nSteps = 0


\* the passes of the call so far, in the order in which they ran
Ran(names) == [loc EXCEPT !.trace = @ \o names]

\* entry of PerformStep: validation of the moves, copy of the state
Call ==
    /\ pc = "idle"
    /\ nSteps < MaxSteps
    /\ \E d \in StepMenu(inState) :
          /\ stepData' = d
          /\ loc' = NewLocals(g)
          /\ IF ~AllValid(d.vMoves, inState)
             THEN /\ pc' = "done"
                  /\ ret' = "false"
                  /\ UNCHANGED <<outState, stepResult, g>>
             ELSE /\ pc' = "passes"
                  /\ ret' = "none"
                  /\ \E s0 \in {InitialiseStep(inState, d)} :
                        /\ outState' = s0
                        /\ g' = CacheGameRound(g, s0, inState)
                  /\ stepResult' = NewStepResult
    /\ nSteps' = nSteps + 1
    /\ UNCHANGED <<inState, memo>>

\* Pass0_CacheDataForGame, Pass1_DAO and the check of the version
Passes01 ==
    /\ pc = "passes"
    /\ \E p1 \in {Pass1_DAO(outState, Pass0_CacheDataForGame(outState, g))} :
          /\ outState' = p1.s
          /\ g' = p1.g
          /\ loc' = Ran(<<"Pass0_CacheDataForGame", "Pass1_DAO">>)
          /\ IF p1.fault THEN pc' = "done" /\ ret' = "abort"
             ELSE IF IsObsolete(p1.s) THEN pc' = "done" /\ ret' = "false"
             ELSE pc' = "kills" /\ ret' = "none"
    /\ UNCHANGED <<inState, stepData, stepResult, memo, nSteps>>

\* game fees, attacks and the passes that kill
Kills ==
    /\ pc = "kills"
    /\ \E fees \in {PayGameFees(outState, stepData.vMoves)} :
       \E w1 \in {KillSpawnArea([s |-> fees.s, g |-> ApplyAttacks(fees.s, g, stepData.vMoves),
                                 res |-> stepResult, fault |-> FALSE])} :
       \E w2 \in {KillRangedAttacks(w1)} :
       \E w4 \in {FinaliseKills(DecrementLife(w2))} :
       \E atFork \in {IsForkHeight(FORK_LIFESTEAL, w4.s.nHeight)} :
       \E w5 \in {IF atFork THEN RemoveHeartedCharacters(w4) ELSE w4} :
          /\ outState' = w5.s
          /\ g' = w5.g
          /\ stepResult' = w5.res
          /\ loc' = [Ran(<<"ApplyAttacks", "KillSpawnArea", "KillRangedAttacks",
                           "DecrementLife", "FinaliseKills">>
                         \o (IF atFork THEN <<"RemoveHeartedCharacters">> ELSE <<>>))
                       EXCEPT !.moneyIn = fees.moneyIn, !.spawnArea = w1.s,
                              !.ranged = w2.s, !.fundBefore = outState.gameFund,
                              !.fundAfter = fees.s.gameFund,
                              !.spawnTax = w1.res.nTaxAmount - stepResult.nTaxAmount]
          /\ IF w5.fault THEN pc' = "done" /\ ret' = "abort"
             ELSE pc' = "moves" /\ ret' = "none"
    /\ UNCHANGED <<inState, stepData, memo, nSteps>>

\* waypoints, melee, path-finding, payments and the state of the crown
Moves ==
    /\ pc = "moves"
    /\ \E s1 \in {FoldSeq(LAMBDA acc, m : IF IsSpawn(m) THEN acc ELSE ApplyWaypoints(acc, m),
                            outState, stepData.vMoves)} :
       \E w2 \in {PathFinding(Pass2_Melee([s |-> s1, g |-> g, res |-> stepResult,
                                            fault |-> FALSE]))} :
       \E w3 \in {Pass3_PaymentAndHitscan(w2)} :
       \E w4 \in {Pass4_Refund(w3)} :
       \E cr \in {UpdateCrownState(w4.s)} :
          /\ outState' = cr.s
          /\ g' = w4.g
          /\ stepResult' = w4.res
          /\ loc' = [Ran(<<"ApplyWaypoints", "Pass2_Melee", "PathFinding",
                           "Pass3_PaymentAndHitscan", "Pass4_Refund", "UpdateCrownState">>)
                       EXCEPT !.respawn_crown = cr.respawn_crown, !.killed = outState,
                              !.pathed = w2.s, !.scanned = w3.s,
                              !.waypointed = s1]
          /\ IF w4.fault \/ cr.fault THEN pc' = "done" /\ ret' = "abort"
             ELSE pc' = "banking" /\ ret' = "none"
    /\ UNCHANGED <<inState, stepData, memo, nSteps>>

\* banking and the early return for a null block hash
BankingStep ==
    /\ pc = "banking"
    /\ \E w1 \in {Banking([s |-> outState, g |-> g, res |-> stepResult, fault |-> FALSE])} :
          /\ outState' = w1.s
          /\ g' = w1.g
          /\ stepResult' = w1.res
          /\ loc' = [Ran(<<"Banking">>) EXCEPT !.banked = w1.s, !.bankedResult = w1.res,
                                             !.moved = outState, !.movedResult = stepResult]
          /\ IF w1.fault THEN pc' = "done" /\ ret' = "abort"
             ELSE IF IsTaxOnly(w1.s) THEN pc' = "done" /\ ret' = "true"
             ELSE pc' = "hash" /\ ret' = "none"
    /\ UNCHANGED <<inState, stepData, memo, nSteps>>


\* the passes that draw from the block hash and the comparison of the money
HashPasses ==
    /\ pc = "hash"
    /\ \E nCrownBonus \in {CDiv(CROWN_BONUS * stepData.nTreasureAmount, TOTAL_HARVEST)} :
       \E dis \in {Disaster([s |-> outState, rnd |-> RndSeed(outState.hashBlock),
                                fault |-> FALSE])} :
       \E spawned \in {FoldSeq(LAMBDA acc, m :
                                   IF IsSpawn(m) THEN ApplySpawn(acc.s, m, acc.rnd) ELSE acc,
                               [s |-> dis.s, rnd |-> dis.rnd], stepData.vMoves)} :
       \E s1 \in {FoldSeq(LAMBDA acc, m : ApplyCommon(acc, m), spawned.s, stepData.vMoves)} :
       \E res1 \in {UpdateAddress(stepResult, s1)} :
       \E r1 \in {DropTreasure([s |-> s1, rnd |-> spawned.rnd, fault |-> dis.fault],
                               stepData.nTreasureAmount)} :
       \E divided \in {DivideLootAmongPlayers(r1.s)} :
       \E cp \in {DynamicCheckpoint([s |-> CrownBonus(divided, nCrownBonus), g |-> g])} :
       \E r5 \in {CollectCrown(CollectHearts(DropHeart(
                      UpdateBanks([s |-> cp.s, rnd |-> r1.rnd, fault |-> r1.fault]), cp.g)),
                                loc.respawn_crown)} :
          /\ outState' = r5.s
          /\ g' = cp.g
          /\ stepResult' = res1
          /\ loc' = [Ran(<<"CheckForDisaster",
                           "ApplySpawn", "ApplyCommon", "UpdateAddress", "DropTreasure",
                           "DivideLootAmongPlayers", "CrownBonus", "DynamicCheckpoint",
                           "UpdateBanks", "DropHeart", "CollectHearts", "CollectCrown">>)
                         EXCEPT !.divided = divided]
          /\ pc' = "done"
          /\ ret' = IF r5.fault THEN "abort"
                    ELSE IF IsMismatch(inState, stepData, loc.moneyIn, r5.s, res1) THEN "false"
                    ELSE "true"
    /\ UNCHANGED <<inState, stepData, memo, nSteps>>

\* the caller connects the block: the next step starts from outState
Accept ==
    /\ pc = "done"
    /\ ret = "true"
    /\ stepData.newHash # NullHash
    /\ pc' = "idle"
    /\ inState' = outState
    /\ memo' = ThisCall(inState, stepData, outState, stepResult, ret)
    /\ UNCHANGED <<stepData, outState, stepResult, ret, g, loc, nSteps>>

\* the caller drops the result (computation of the tax, rejected block,
\* validation of a block that is not connected)
Discard ==
    /\ pc = "done"
    /\ ret \in {"true", "false"}
    /\ pc' = "idle"
    /\ memo' = ThisCall(inState, stepData, outState, stepResult, ret)
    /\ UNCHANGED <<inState, stepData, outState, stepResult, ret, g, loc, nSteps>>

Next ==
    \/ Call
    \/ Passes01
    \/ Kills
    \/ Moves
    \/ BankingStep
    \/ HashPasses
    \/ Accept
    \/ Discard

Spec == Init /\ [][Next]_vars

---------------------------------------------------------------------------
(* The treasure drop of PerformStep on its own, for every treasure amount  *)
(* up to MaxTreasure.                                                      *)

TreasureInit ==
    /\ pc = "treasure"
    /\ inState = ConstructedState
    /\ \E n \in 0..MaxTreasure :
          /\ stepData = StepData(21, <<>>, n)
          /\ outState = InitialiseStep(ConstructedState, StepData(21, <<>>, n))
    /\ stepResult = NewStepResult
    /\ ret = "none"
    /\ g = InitialGlobals
    /\ loc = NewLocals(InitialGlobals)
    /\ memo = NoCall
    /\ nSteps = 0

\* the drop and the assertion that follows it
TreasureDrop ==
    /\ pc = "treasure"
    /\ \E r \in {DropTreasure([s |-> outState, rnd |-> RndSeed(outState.hashBlock),
                                fault |-> FALSE], stepData.nTreasureAmount)} :
          /\ outState' = r.s
          /\ ret' = IF r.fault THEN "abort" ELSE "none"
    /\ pc' = "dropped"
    /\ loc' = Ran(<<"DropTreasure">>)
    /\ UNCHANGED <<inState, stepData, stepResult, g, memo, nSteps>>

TreasureNext == TreasureDrop

TreasureSpec == TreasureInit /\ [][TreasureNext]_vars

---------------------------------------------------------------------------
(* CharacterState::CollectLoot on its own: loc holds the loot of the       *)
(* character, the new amount and the carrying capacity, memo the result.   *)

CollectInit ==
    /\ pc = "collect"
    /\ loc \in [loot : 0..MaxLoot, nAmount : 0..MaxLoot, carryCap : (-1)..MaxLoot]
    /\ memo = NoCall
    /\ inState = ConstructedState
    /\ stepData = StepData(NullHash, <<>>, 0)
    /\ outState = ConstructedState
    /\ stepResult = NewStepResult
    /\ ret = "none"
    /\ g = InitialGlobals
    /\ nSteps = 0

CollectCall ==
    /\ pc = "collect"
    /\ \E got \in {CollectLoot(loc.loot, loc.nAmount, loc.carryCap)} :
          memo' = [valid |-> TRUE, loot |-> got.loot, remaining |-> got.remaining]
    /\ pc' = "collected"
    /\ UNCHANGED <<inState, stepData, outState, stepResult, ret, g, loc, nSteps>>

CollectNext == CollectCall

CollectSpec == CollectInit /\ [][CollectNext]_vars

\* The division of the loot of two tiles among three characters that are
\* enumerated in any order.
TileA == <<120, 120>>
TileB == <<160, 120>>
OffTile == <<200, 120>>
DivideState(at, onA) ==
    [AtHeight(FORK_POISON + 100) EXCEPT
       !.players = [p \in {1, 2} |->
                       IF p = 1 THEN Owner(0, 2000, [i \in {0, 1} |-> Hunter(at[i + 1], 10 * i)])
                       ELSE Owner(1, 2000, Single(Hunter(at[3], 7)))],
       !.loot = [c \in {TileA, TileB} |-> IF c = TileA THEN onA ELSE 5]]
Orders(keys) ==
    {[j \in 1..Len(keys) |-> keys[f[j]]] :
        f \in {h \in [1..Len(keys) -> 1..Len(keys)] :
                  \A i, j \in 1..Len(keys) : h[i] = h[j] => i = j}}

DivideInit ==
    /\ pc = "divide"
    /\ inState \in {DivideState(at, onA) :
                       at \in [1..3 -> {TileA, TileB, OffTile}], onA \in 1..MaxTileLoot}
    /\ loc \in [order : Orders(CharKeys(inState))]
    /\ memo = NoCall
    /\ stepData = StepData(NullHash, <<>>, 0)
    /\ outState = ConstructedState
    /\ stepResult = NewStepResult
    /\ ret = "none"
    /\ g = InitialGlobals
    /\ nSteps = 0

DivideCall ==
    /\ pc = "divide"
    /\ \E r \in {DivideInOrder(inState, loc.order)} :
          /\ outState' = r.s
          /\ memo' = [valid |-> TRUE, offers |-> r.offers]
    /\ pc' = "divided"
    /\ UNCHANGED <<inState, stepData, stepResult, ret, g, loc, nSteps>>

DivideNext == DivideCall

DivideSpec == DivideInit /\ [][DivideNext]_vars

\* The loot of a killed character: a general with 2000 locked coins (none
\* after FORK_LIFESTEAL) and a second character, each carrying the same loot,
\* killed for any cause at heights before and after the forks that change the
\* handling, with the cached minimum version below and at 2020700.
KilledLoots == {0, 24, 25, 60}
KilledLootState(h, life, loot) ==
    [AtHeight(h) EXCEPT
       !.players = [p \in {1} |->
                       [Owner(0, IF h >= FORK_LIFESTEAL THEN 0 ELSE 2000,
                              [i \in {0, 1} |-> Hunter(<<120 + 40 * i, 120>>, loot)])
                          EXCEPT !.remainingLife = life]],
       !.gameFund = 900]

KilledLootInit ==
    /\ pc = "killed"
    /\ inState \in {KilledLootState(h, life, loot) :
                       h \in {FORK_POISON + 100, FORK_LESSHEARTS + 100, FORK_LIFESTEAL + 100},
                       life \in {-1, 0}, loot \in KilledLoots}
    /\ loc \in [chInd : {0, 1}, reason : {"KILLED_DESTRUCT", "KILLED_SPAWN", "KILLED_POISON"},
                 Cache_min_version : {STATE_VERSION, STATE_VERSION + 100}]
    /\ memo = NoCall
    /\ stepData = StepData(NullHash, <<>>, 0)
    /\ outState = ConstructedState
    /\ stepResult = NewStepResult
    /\ ret = "none"
    /\ g = InitialGlobals
    /\ nSteps = 0

KilledLootCall ==
    /\ pc = "killed"
    /\ \E w \in {HandleKilledLoot(
                     [s |-> inState,
                      g |-> [g EXCEPT !.Cache_min_version = loc.Cache_min_version],
                      res |-> stepResult, fault |-> FALSE], 1, loc.chInd, loc.reason)} :
          /\ outState' = w.s
          /\ stepResult' = w.res
          /\ ret' = IF w.fault THEN "abort" ELSE "none"
    /\ pc' = "handled"
    /\ UNCHANGED <<inState, stepData, g, loc, memo, nSteps>>

KilledLootNext == KilledLootCall

KilledLootSpec == KilledLootInit /\ [][KilledLootNext]_vars

\* A character on the base tile of a merchant that sells an item: the
\* merchant of the poison spell, of the ring of word recall, of the ring and
\* of the amulet of life saving.  The merchant is there, away or missing, has
\* sold nothing yet, 150 blocks ago or 20000 blocks ago; the character holds
\* nothing, the item or another one in the slot, and has no loot, a coin less
\* than the price, the price, some coins more or three times the full price;
\* it is a hunter or a monster.
ShopMerchants == {14, 16, MERCH_RING_IMMORTALITY, MERCH_AMULET_LIFE_SAVING}
ShopHeight == 3 * RPG_INTERVAL_BOUNTYCYCLE
ShopOffer(M) == CHOOSE o \in MerchantGoods : o[1] = M
ShopGlobals(M, exists, atBase, lastSale) ==
    IF ~exists THEN InitialGlobals
    ELSE [InitialGlobals EXCEPT
            !.Merchant_exists = {M},
            !.Merchant_pos = MapPut(@, M, IF atBase THEN Merchant_base(M) ELSE <<300, 300>>),
            !.Merchant_last_sale[M] = lastSale]
ShopCharacter(M, role, loot, held) ==
    [Npc(role, Merchant_base(M), loot) EXCEPT ![ShopOffer(M)[2]] = held]

MerchantInit ==
    /\ pc = "shop"
    /\ \E M \in ShopMerchants, exists \in BOOLEAN, atBase \in BOOLEAN,
          lastSale \in {0, ShopHeight - 150, ShopHeight - 20000},
          role \in {0, MONSTER_REAPER}, held \in {0, 1, AI_ITEM_LIFE_SAVING, AI_ATTACK_POISON},
          more \in {-1, 0, 7} :
          \E gg \in {ShopGlobals(M, exists, atBase, lastSale)} :
          \E loot \in {0, Rpg_getMerchantOffer(gg, M, ShopHeight) * COIN + more,
                        3 * MerchantBasePrice[M] * COIN} :
             loc = [M |-> M, h |-> ShopHeight, visits |-> 0, sales |-> 0,
                    ch |-> ShopCharacter(M, role, loot, held), g |-> gg,
                    chBefore |-> ShopCharacter(M, role, loot, held), gBefore |-> gg]
    /\ memo = NoCall
    /\ inState = ConstructedState
    /\ stepData = StepData(NullHash, <<>>, 0)
    /\ outState = ConstructedState
    /\ stepResult = NewStepResult
    /\ ret = "none"
    /\ g = InitialGlobals
    /\ nSteps = 0

\* the purchase of MoveTowardsWaypointX_Merchants in one block and in the
\* next one; a sale is the last sale of the merchant in the block after it
MerchantVisit ==
    /\ pc = "shop"
    /\ loc.visits < 2
    /\ \E r \in {IF loc.ch.ai_npc_role = 0
                  THEN VisitMerchant([ch |-> loc.ch, g |-> loc.g], loc.h) ELSE
                  [ch |-> loc.ch, g |-> loc.g]} :
       \E sold \in {r.ch.loot # loc.ch.loot} :
          loc' = [loc EXCEPT !.chBefore = loc.ch, !.gBefore = loc.g, !.ch = r.ch,
                             !.g = IF sold THEN [r.g EXCEPT !.Merchant_last_sale[loc.M] = loc.h,
                                                            !.Merchant_sats_received[loc.M] = 0]
                                   ELSE r.g,
                             !.h = @ + 1, !.visits = @ + 1,
                             !.sales = IF sold THEN @ + 1 ELSE @]
    /\ UNCHANGED <<pc, inState, stepData, outState, stepResult, ret, g, memo, nSteps>>

MerchantNext == MerchantVisit

MerchantSpec == MerchantInit /\ [][MerchantNext]_vars

TypeOK ==
    /\ pc \in {"idle", "passes", "kills", "moves", "banking", "hash", "done"}
    /\ ret \in {"none", "true", "false", "abort"}
    /\ nSteps \in 0..MaxSteps


---------------------------------------------------------------------------
(* Properties.                                                             *)

Returned == pc = "done" /\ ret # "abort"
Accepted == pc = "done" /\ ret = "true"
WithHash == stepData.newHash # NullHash

\* the locked coins that the moves of the step bring into the game
LockedDelta(m, s) ==
    m.newLocked - (IF m.player \in DOMAIN s.players THEN s.players[m.player].lockedCoins ELSE 0)
MovesMoneyIn(d, s) == Sum([j \in 1..Len(d.vMoves) |-> LockedDelta(d.vMoves[j], s)])

Conserved ==
    GetCoinsOnMap(inState) + inState.gameFund + stepData.nTreasureAmount
        + MovesMoneyIn(stepData, inState)
    = GetCoinsOnMap(outState) + outState.gameFund + MoneyOut(stepResult)

\* C1 as stated: every call of PerformStep that returns true, with a null or
\* a non-null newHash, conserves the coins: money before + treasure + money
\* in = money after + money out.
C1_ConservationAnyHash == Accepted => Conserved

\* C1 amended: every call of PerformStep with a non-null newHash that returns
\* true conserves the coins: money before + treasure + money in = money
\* after + money out.
C1_Conservation == (Accepted /\ WithHash) => Conserved

\* an accepted step with a move, treasure and money paid out
C1_Witness ==
    /\ Accepted /\ WithHash
    /\ stepData.vMoves # <<>> /\ stepData.nTreasureAmount > 0
    /\ MoneyOut(stepResult) > 0

SameInputs == memo.valid /\ memo.inState = inState /\ memo.stepData = stepData

\* C2: two calls of PerformStep with equal inState and equal stepData give
\* equal outState, equal stepResult and the same return value, whatever was
\* executed before in the process.
C2_Determinism ==
    (Returned /\ SameInputs)
        => (memo.outState = outState /\ memo.stepResult = stepResult /\ memo.ret = ret)

SomeInvalid == \E j \in 1..Len(stepData.vMoves) : ~IsValid(stepData.vMoves[j], inState)

\* C3: when a move of the step fails IsValid on inState, PerformStep returns
\* false and no pass has run: the caches are as they were at the call.
C3_InvalidMove ==
    (pc # "idle" /\ SomeInvalid)
        => (pc = "done" /\ ret = "false" /\ loc.trace = <<>> /\ g = loc.g0)

\* a rejected spawn move of a player that the step before has created
C3_Witness ==
    /\ pc = "done" /\ SomeInvalid /\ ret = "false"
    /\ nSteps = 2 /\ Len(stepData.vMoves) = 1 /\ IsSpawn(stepData.vMoves[1])
    /\ stepData.vMoves[1].player \in DOMAIN inState.players


\* C4: whenever STATE_VERSION is smaller than outState.dao_MinVersion after
\* the DAO pass of a step, PerformStep returns false right there; so the
\* step whose vote raises dao_MinVersion above STATE_VERSION is rejected, and
\* so is every step that starts from a state with such a dao_MinVersion.
C4_ObsoleteVersion ==
    /\ (pc \notin {"idle", "passes"} /\ loc.trace # <<>>
            /\ STATE_VERSION < outState.dao_MinVersion)
          => (pc = "done" /\ ret = "false" /\ Len(loc.trace) = 2)
    /\ (pc = "done" /\ STATE_VERSION < inState.dao_MinVersion) => ret = "false"

\* the step in which the vote to upgrade is accepted and that is rejected
C4_Witness ==
    /\ pc = "done" /\ ret = "false" /\ ~SomeInvalid
    /\ inState.dao_MinVersion = STATE_VERSION
    /\ outState.dao_MinVersion = STATE_VERSION + 100
    /\ outState.dao_NamePreviousWeek # NoPlayer

NullHashCall == stepData.newHash = NullHash
HashPassNames ==
    {"CheckForDisaster",
     "ApplySpawn", "ApplyCommon", "UpdateAddress", "DropTreasure", "DivideLootAmongPlayers",
     "CrownBonus", "DynamicCheckpoint", "UpdateBanks", "DropHeart", "CollectHearts",
     "CollectCrown"}
TraceNames == {loc.trace[j] : j \in 1..Len(loc.trace)}

\* C5: a call with a null newHash that gets to the banking pass returns true
\* right after it, with the tax of the step in stepResult.nTaxAmount, and no
\* pass that draws from the hash has run or changed outState: no player is
\* spawned, no message or address is updated, no treasure is dropped, no loot
\* is divided, no crown bonus is paid, banks, hearts and crown are untouched.
C5_TaxOnly ==
    (pc # "idle" /\ NullHashCall /\ "Banking" \in TraceNames)
        => /\ pc = "done" /\ ret = "true"
           /\ TraceNames \cap HashPassNames = {}
           /\ outState = loc.banked /\ stepResult = loc.bankedResult
           /\ DOMAIN outState.players \subseteq DOMAIN inState.players
           /\ outState.banks = inState.banks
           /\ outState.hearts \subseteq inState.hearts
           /\ \A p \in DOMAIN outState.players :
                 /\ outState.players[p].address = inState.players[p].address
                 /\ outState.players[p].msg_request = inState.players[p].msg_request
                 /\ outState.players[p].msg_vote = inState.players[p].msg_vote

\* a null-hash call with a spawn move or treasure in which a tax is due
C5_Witness ==
    /\ pc = "done" /\ ret = "true" /\ NullHashCall
    /\ stepResult.nTaxAmount > 0
    /\ stepData.nTreasureAmount > 0 /\ stepData.vMoves # <<>>

OtherHash ==
    /\ memo.valid /\ memo.inState = inState
    /\ memo.stepData.vMoves = stepData.vMoves
    /\ memo.stepData.nTreasureAmount = stepData.nTreasureAmount
    /\ (memo.stepData.newHash = NullHash) # (stepData.newHash = NullHash)

\* C6: for the same inState, moves and treasure, stepResult.nTaxAmount of a
\* call with a null newHash equals that of a call with a non-null newHash.
C6_TaxIndependentOfHash ==
    (Returned /\ OtherHash) => memo.stepResult.nTaxAmount = stepResult.nTaxAmount

\* a call with a null hash and one with a non-null hash that owe the same tax
C6_Witness ==
    /\ Returned /\ OtherHash /\ stepResult.nTaxAmount > 0
    /\ ret = "true" /\ memo.ret = "true" /\ stepData.vMoves # <<>>


\* all balances of the state s are non-negative
NonNegative(s) ==
    /\ s.gameFund >= 0
    /\ \A c \in DOMAIN s.loot : s.loot[c] >= 0
    /\ \A p \in DOMAIN s.players :
          /\ s.players[p].value >= 0
          /\ s.players[p].lockedCoins >= 0
          /\ \A i \in DOMAIN s.players[p].characters : s.players[p].characters[i].loot >= 0

\* C7: after every accepted step from a state in which all balances are
\* non-negative, every player value, lockedCoins, character loot, loot tile
\* and the game fund are non-negative, the loot of the merchant that pays a
\* bounty included.
C7_NoNegativeBalances == (Accepted /\ NonNegative(inState)) => NonNegative(outState)

PlayerBounds(pl) ==
    /\ Cardinality(DOMAIN pl.characters) <= MAX_CHARACTERS_PER_PLAYER
    /\ pl.next_character_index <= MAX_CHARACTERS_PER_PLAYER_TOTAL

\* the characters that player p has in outState and did not have in inState
Created(p) ==
    (DOMAIN outState.players[p].characters)
        \ (IF p \in DOMAIN inState.players THEN DOMAIN inState.players[p].characters ELSE {})

\* C8: in every state every player has at most 20 characters and
\* next_character_index <= 1000; a step creates a character for a player
\* only while the player has fewer than 20 characters and an index below
\* 1000 is left, also when the player stands on several hearts.
C8_BoundedPopulation ==
    /\ \A p \in DOMAIN inState.players : PlayerBounds(inState.players[p])
    /\ Accepted =>
          \A p \in DOMAIN outState.players :
             /\ PlayerBounds(outState.players[p])
             /\ \A i \in Created(p) :
                   /\ i < MAX_CHARACTERS_PER_PLAYER_TOTAL
                   /\ p \in DOMAIN inState.players => i >= inState.players[p].next_character_index

OnHeart(s, p) ==
    {c \in s.hearts : \E i \in DOMAIN s.players[p].characters : s.players[p].characters[i].coord = c}

\* a player with 19 characters on two hearts gets one character and a player
\* with the index 999 gets its last one
C8_Witness ==
    /\ Accepted /\ WithHash
    /\ \E p \in DOMAIN inState.players \cap DOMAIN outState.players :
          /\ Cardinality(DOMAIN inState.players[p].characters) = MAX_CHARACTERS_PER_PLAYER - 1
          /\ Cardinality(OnHeart(inState, p)) >= 2
          /\ Cardinality(Created(p)) = 1
          /\ Cardinality(OnHeart(outState, p)) >= 1
    /\ \E p \in DOMAIN inState.players \cap DOMAIN outState.players :
          /\ inState.players[p].next_character_index = MAX_CHARACTERS_PER_PLAYER_TOTAL - 1
          /\ outState.players[p].next_character_index = MAX_CHARACTERS_PER_PLAYER_TOTAL
          /\ Created(p) # {}

LifeSteal(s) == ForkInEffect(FORK_LIFESTEAL, s.nHeight)
NumBanks(s) == Cardinality(DOMAIN s.banks)

\* C9 as stated: the out-state of every step at which the life-steal fork is
\* in effect has exactly 75 banks.
C9_BankCardinalityAnyHash ==
    (Accepted /\ LifeSteal(outState)) => NumBanks(outState) = DYNBANKS_NUM_BANKS

\* C9 amended: the out-state of every accepted step with a non-null newHash
\* at which the life-steal fork is in effect has exactly 75 banks.
C9_BankCardinality ==
    (Accepted /\ WithHash /\ LifeSteal(outState)) => NumBanks(outState) = DYNBANKS_NUM_BANKS

\* the step at the height of the fork replaces the 116 original banks
C9_Witness ==
    /\ Accepted /\ WithHash
    /\ IsForkHeight(FORK_LIFESTEAL, outState.nHeight)
    /\ NumBanks(inState) = 4 * (2 * SPAWN_AREA_LENGTH - 1)
    /\ NumBanks(outState) = DYNBANKS_NUM_BANKS

LifeInBounds(s) == \A b \in DOMAIN s.banks : s.banks[b] >= 1 /\ s.banks[b] <= DYNBANKS_MAX_LIFE

\* C10 as stated: in every reachable state, from the state of the
\* constructor onwards, every bank has a life between 1 and 100.
C10_BankLifeAlways == LifeInBounds(inState) /\ (Accepted => LifeInBounds(outState))

\* C10 amended: in the out-state of every accepted step with a non-null
\* newHash at which the life-steal fork is in effect, every bank has a life
\* between 1 and 100.
C10_BankLife == (Accepted /\ WithHash /\ LifeSteal(outState)) => LifeInBounds(outState)

\* banks with the life 2 reach the life 1 and banks with the life 1 are
\* replaced by banks with a life of at least 25
C10_Witness ==
    /\ Accepted /\ WithHash /\ LifeSteal(inState)
    /\ \E b \in DOMAIN inState.banks : inState.banks[b] = 2 /\ outState.banks[b] = 1
    /\ \E b \in DOMAIN inState.banks : inState.banks[b] = 1 /\ b \notin DOMAIN outState.banks
    /\ \E b \in (DOMAIN outState.banks) \ (DOMAIN inState.banks) :
          outState.banks[b] >= DYNBANKS_MIN_LIFE

Poisoned(s0, s1) ==
    {p \in DOMAIN s0.players \cap DOMAIN s1.players :
        s0.players[p].remainingLife = -1 /\ s1.players[p].remainingLife > 0}

\* C11: no step is a disaster: every step that returns after its moves have
\* been found valid leaves nDisasterHeight as it was in the in-state and takes
\* no player's remainingLife from -1 to a positive value, before the poison
\* fork, less than PDISASTER_MIN_TIME blocks after the previous disaster and
\* at every other height.
C11_NoDisaster ==
    (Returned /\ "Pass0_CacheDataForGame" \in TraceNames) =>
       /\ outState.nDisasterHeight = inState.nDisasterHeight
       /\ Poisoned(inState, outState) = {}

\* a step with a block hash and with players that live on, at which the poison
\* fork is in effect and the last disaster is PDISASTER_MAX_TIME blocks or
\* more away
C11_Witness ==
    /\ Accepted /\ WithHash
    /\ "CheckForDisaster" \in TraceNames
    /\ StateForkInEffect(outState, FORK_POISON)
    /\ outState.nHeight - inState.nDisasterHeight >= PDISASTER_MAX_TIME
    /\ \E p \in DOMAIN inState.players \cap DOMAIN outState.players :
          inState.players[p].remainingLife = -1 /\ outState.players[p].remainingLife = -1

KilledOtherwise(res, p) ==
    p \in res.killedPlayers /\ res.killedBy[p] \in {"KILLED_DESTRUCT", "KILLED_SPAWN"}
KilledByPoison(res, s1, p) ==
    /\ p \in res.killedPlayers
    /\ p \notin DOMAIN s1.players
    /\ res.killedBy[p] = "KILLED_POISON" \/ KilledOtherwise(res, p)

\* one step of the life of the poisoned players of s0
PoisonStep(s0, s1, res) ==
    \A p \in DOMAIN s0.players :
       LET k == s0.players[p].remainingLife
       IN k > 0 =>
             IF k = 1 THEN KilledByPoison(res, s1, p)
             ELSE \/ KilledOtherwise(res, p) /\ p \notin DOMAIN s1.players
                  \/ /\ p \in DOMAIN s1.players
                     /\ p \notin res.killedPlayers
                     /\ s1.players[p].remainingLife = k - 1

\* the step before this one was accepted and its out-state is this in-state
Consecutive == memo.valid /\ memo.ret = "true" /\ memo.outState = inState

\* C12: in every step that gets to DecrementLife, a player with the
\* remainingLife k > 1 that is not killed otherwise is in the out-state with
\* k - 1, and a player with the remainingLife 1 is killed with the cause
\* KILLED_POISON and erased from players; a player with the remainingLife 2
\* is so erased in the second of two consecutive steps, exactly 2 steps later.
C12_PoisonLifecycle ==
    (Returned /\ "DecrementLife" \in TraceNames) =>
        /\ PoisonStep(inState, outState, stepResult)
        /\ Consecutive =>
              \A p \in DOMAIN memo.inState.players \cap DOMAIN inState.players :
                 memo.inState.players[p].remainingLife = 2 =>
                    KilledByPoison(stepResult, outState, p)

\* the second step after a state in which a player has two blocks left kills
\* this player with the cause KILLED_POISON, and the first one has killed the
\* player that had one block left
C12_Witness ==
    /\ Accepted /\ Consecutive
    /\ \E p \in DOMAIN memo.inState.players :
          /\ memo.inState.players[p].remainingLife = 2
          /\ inState.players[p].remainingLife = 1
          /\ p \notin DOMAIN outState.players
          /\ stepResult.killedBy[p] = "KILLED_POISON"
    /\ \E p \in DOMAIN memo.inState.players :
          /\ memo.inState.players[p].remainingLife = 1
          /\ p \notin DOMAIN inState.players
          /\ memo.stepResult.killedBy[p] = "KILLED_POISON"

InsideMap(s) ==
    \A p \in DOMAIN s.players : \A i \in DOMAIN s.players[p].characters :
       IsInsideMap(s.players[p].characters[i].coord[1], s.players[p].characters[i].coord[2])

\* the characters that are in the in-state and in the out-state of the step
Survivors ==
    {k \in {CharKeys(inState)[j] : j \in 1..Len(CharKeys(inState))} : HasChar(outState, k)}
Corners == {<<x, y>> : x \in {0, MAP_WIDTH - 1}, y \in {0, MAP_HEIGHT - 1}}
Starved(k) ==
    /\ GetChar(inState, k).coord \notin Corners
    /\ GetChar(outState, k).coord \in Corners
    /\ "NORMAL_TP" \in GetChar(outState, k).ai_state2
Teleported(k) ==
    \E tp \in 1..Len(POI_pos_a) :
       /\ GetChar(inState, k).coord = POI_pos_a[tp]
       /\ GetChar(outState, k).coord = POI_pos_b[tp]
Escaped(k) ==
    /\ "ESCAPE" \in GetChar(inState, k).ai_state2
    /\ GetChar(outState, k).coord # GetChar(inState, k).coord
Snapped(k) ==
    /\ NPCROLE_IS_MERCHANT(GetChar(outState, k).ai_npc_role)
    /\ GetChar(inState, k).coord # Merchant_base(GetChar(outState, k).ai_npc_role)
    /\ GetChar(outState, k).coord = Merchant_base(GetChar(outState, k).ai_npc_role)
HitBack(k) ==
    /\ GetChar(outState, k).ai_state2 \cap DeathFlags # {}
    /\ "NORMAL_STEP" \in GetChar(outState, k).ai_state
    /\ GetChar(outState, k).coord = GetChar(inState, k).coord
HasGeneral(s, p) == 0 \in DOMAIN s.players[p].characters
LostGeneral(p) ==
    /\ p \in DOMAIN inState.players
    /\ HasGeneral(inState, p)
    /\ ~HasChar(outState, <<p, 0>>)

\* C14: in the out-state of every step that gets to FinaliseKills and returns
\* every player owns the character with the index 0, and a player whose
\* character with the index 0 is removed in the step is a killed player of the
\* step and is, with all its characters, no longer in players.
C14_GeneralDeath ==
    (Returned /\ "FinaliseKills" \in TraceNames) =>
       /\ \A p \in DOMAIN outState.players : HasGeneral(outState, p)
       /\ \A p \in DOMAIN inState.players :
             LostGeneral(p) => p \in stepResult.killedPlayers /\ p \notin DOMAIN outState.players

\* the general of a player with two characters has been hit and is removed
\* by KillRangedAttacks, and the player is erased
C14_Witness ==
    /\ Accepted
    /\ \E p \in DOMAIN inState.players :
          /\ Cardinality(DOMAIN inState.players[p].characters) = 2
          /\ inState.players[p].characters[0].ai_state2 \cap DeathFlags # {}
          /\ inState.players[p].characters[1].ai_state2 \cap DeathFlags = {}
          /\ inState.players[p].remainingLife = -1
          /\ LostGeneral(p)
          /\ p \in stepResult.killedPlayers
          /\ p \notin DOMAIN outState.players

\* the shares of the harvest areas and the crown bonus of the treasure n
TreasureShares(n) ==
    Sum([i \in 1..Len(HarvestPortions) |-> CDiv(HarvestPortions[i] * n, TOTAL_HARVEST)])
    + CDiv(CROWN_BONUS * n, TOTAL_HARVEST)

\* C15: for every treasure amount >= 0 the shares of the harvest areas and
\* the crown bonus add up to the treasure, and the assertion after the
\* treasure drop holds.
C15_TreasureSplitExact ==
    pc = "dropped" =>
       /\ TreasureShares(stepData.nTreasureAmount) = stepData.nTreasureAmount
       /\ ret # "abort"


\* C16: CollectLoot of the new amount N by a character with the loot L and
\* the carrying capacity cap returns a remainder r with 0 <= r <= N and
\* L + N = loot after + r; with cap = -1 the remainder is 0, with cap >= 0
\* the amount collected is min(N, max(0, cap - L)), and a character with
\* L > cap collects nothing and keeps L.
C16_CollectLootConserves ==
    pc = "collected" =>
       /\ memo.remaining >= 0 /\ memo.remaining <= loc.nAmount
       /\ loc.loot + loc.nAmount = memo.loot + memo.remaining
       /\ loc.carryCap = -1 => memo.remaining = 0
       /\ loc.carryCap >= 0 =>
             loc.nAmount - memo.remaining = Min(loc.nAmount, Max(0, loc.carryCap - loc.loot))
       /\ (loc.carryCap >= 0 /\ loc.loot > loc.carryCap) =>
             memo.loot = loc.loot /\ memo.remaining = loc.nAmount

\* a character with free capacity collects a part of the new amount
C16_Witness ==
    /\ pc = "collected"
    /\ loc.carryCap > loc.loot
    /\ loc.nAmount > loc.carryCap - loc.loot
    /\ memo.loot = loc.carryCap
    /\ memo.remaining > 0 /\ memo.remaining < loc.nAmount


\* the characters that a move of the step orders to destruct
Destructors ==
    {k \in {CharKeys(inState)[j] : j \in 1..Len(CharKeys(inState))} :
        \E j \in 1..Len(stepData.vMoves) :
           stepData.vMoves[j].player = k[1] /\ k[2] \in stepData.vMoves[j].destruct}
\* the characters of another colour on the tiles next to character k
Victims(k) ==
    {v \in {CharKeys(inState)[j] : j \in 1..Len(CharKeys(inState))} :
        /\ inState.players[v[1]].color # inState.players[k[1]].color
        /\ Abs(GetChar(inState, v).coord[1] - GetChar(inState, k).coord[1]) <= 1
        /\ Abs(GetChar(inState, v).coord[2] - GetChar(inState, k).coord[2]) <= 1}
LootAt(s, c) == IF c \in DOMAIN s.loot THEN s.loot[c] ELSE 0

\* C17: in a step before the life-steal fork with a destruct order for a
\* character that has a character of another colour on a tile next to it, the
\* victim is removed from the state, its loot lies on the tile of the victim
\* (pushed out of the spawn area) and the attacker is still there.
C17_DestructKills ==
    (Accepted /\ ~LifeSteal(outState)) =>
       \A k \in Destructors : \A v \in Victims(k) :
          /\ ~HasChar(outState, v)
          /\ LootAt(outState, PushCoordOutOfSpawnArea(GetChar(inState, v).coord))
                >= GetChar(inState, v).loot
          /\ HasChar(outState, k)


\* the crown bonus of the step, the holder of the crown when it is paid, and
\* what a character and the game fund have got since the division of the loot
BonusOfStep == CDiv(CROWN_BONUS * stepData.nTreasureAmount, TOTAL_HARVEST)
BonusHolder == loc.divided.crownHolder
LootGain(k) == GetChar(outState, k).loot - GetChar(loc.divided, k).loot
FundGain == outState.gameFund - loc.divided.gameFund

\* C18 as stated: in every accepted step with a non-null hash the general of
\* the player that holds the crown collects the crown bonus, what exceeds its
\* carrying capacity goes to the game fund, and without a holder the whole
\* bonus goes to the game fund.
C18_BonusToGeneral ==
    (Accepted /\ WithHash) =>
       IF BonusHolder.player # NoPlayer
       THEN LootGain(<<BonusHolder.player, 0>>) + FundGain = BonusOfStep
       ELSE FundGain = BonusOfStep

\* C18 amended: in every accepted step with a non-null hash the character
\* that holds the crown, general or not, collects the whole crown bonus and
\* the game fund gets nothing of it, the carrying capacity being unlimited;
\* without a holder the whole bonus goes to the game fund.
C18_BonusToHolder ==
    (Accepted /\ WithHash) =>
       IF BonusHolder.player # NoPlayer
       THEN /\ LootGain(<<BonusHolder.player, BonusHolder.index>>) = BonusOfStep
            /\ FundGain = 0
            /\ outState.crownHolder = BonusHolder
       ELSE FundGain = BonusOfStep

\* a character with the index 1 holds the crown and collects the bonus of a
\* treasure, and its general collects nothing
C18_Witness ==
    /\ Accepted /\ WithHash
    /\ BonusOfStep > 0
    /\ BonusHolder.player # NoPlayer /\ BonusHolder.index = 1
    /\ LootGain(<<BonusHolder.player, 1>>) = BonusOfStep
    /\ HasChar(outState, <<BonusHolder.player, 0>>)
    /\ LootGain(<<BonusHolder.player, 0>>) = 0


\* the loot on the tiles and with the characters
LootTotal(s) ==
    Sum(s.loot) + Sum([j \in 1..Len(CharKeys(s)) |-> GetChar(s, CharKeys(s)[j]).loot])
\* what the collectors before the i-th one have taken from its tile, and the
\* number of collectors of its tile from the i-th one on
TakenBefore(i) ==
    Sum([j \in {x \in 1..(i - 1) : memo.offers[x].coord = memo.offers[i].coord} |->
            GetChar(outState, memo.offers[j].k).loot - GetChar(inState, memo.offers[j].k).loot])
StillToServe(i) ==
    Cardinality({x \in i..Len(memo.offers) : memo.offers[x].coord = memo.offers[i].coord})
ServedBefore(a, b) ==
    \/ a.rem # -1 /\ (b.rem = -1 \/ a.rem < b.rem)
    \/ a.rem = b.rem /\ (a.k[1] < b.k[1] \/ (a.k[1] = b.k[1] /\ a.k[2] < b.k[2]))

\* C19: whatever the order in which the characters are enumerated, the
\* division of the loot gives the state that the enumeration in the order of
\* the keys gives; the collectors are served in the order of (remaining
\* capacity, player, character index), each one is offered the current amount
\* of its tile divided by the number of collectors of the tile that are still
\* to be served, rounded down, and the sum of the loot on the tiles and with
\* the characters is unchanged.
C19_DivisionOrderIndependent ==
    pc = "divided" =>
       /\ outState = DivideLootAmongPlayers(inState)
       /\ \A i, j \in 1..Len(memo.offers) :
             i < j => ServedBefore(memo.offers[i], memo.offers[j])
       /\ \A i \in 1..Len(memo.offers) :
             memo.offers[i].share =
                (inState.loot[memo.offers[i].coord] - TakenBefore(i)) \div StillToServe(i)
       /\ LootTotal(outState) = LootTotal(inState)

\* three collectors enumerated against the order of their keys, two of them on
\* a tile whose amount is odd: the first of the two in the order of the keys
\* gets the smaller share
C19_Witness ==
    /\ pc = "divided"
    /\ Len(memo.offers) = 3
    /\ loc.order[1] = <<2, 0>> /\ loc.order[3] = <<1, 0>>
    /\ \E c \in DOMAIN inState.loot :
          /\ inState.loot[c] % 2 = 1
          /\ StillToServe(1) = 2 /\ memo.offers[1].coord = c
          /\ \E i \in 2..3 : /\ memo.offers[i].coord = c
                             /\ memo.offers[1].share < memo.offers[i].share


\* the step is one before the fork FORK_TIMESAVE whose KillSpawnArea has run
SpawnAreaStep ==
    /\ Returned /\ "KillSpawnArea" \in TraceNames
    /\ ~ForkInEffect(FORK_TIMESAVE, inState.nHeight + 1)
\* the longest stay on a bank at the height of the step
MaxStayOfStep ==
    IF inState.nHeight + 1 >= FORK_LIFESTEAL THEN 2
    ELSE IF inState.nHeight + 1 >= FORK_CARRYINGCAP /\ inState.nHeight + 1 < FORK_LESSHEARTS
    THEN -1
    ELSE 30
OnBank(s, k) == IsBank(s, GetChar(s, k).coord)
InStasis(s, k) == "STASIS" \in GetChar(s, k).ai_state2
StayIn(k) == GetChar(inState, k).stay_in_spawn_area
\* character k is erased by KillSpawnArea; its player, if k is the general,
\* is killed with the cause KILLED_SPAWN and is not in the out-state
SpawnKilled(k) ==
    /\ ~HasChar(loc.spawnArea, k)
    /\ ~HasChar(outState, k)
    /\ k[2] = 0 => /\ k[1] \in stepResult.killedPlayers
                   /\ stepResult.killedBy[k[1]] = "KILLED_SPAWN"
                   /\ k[1] \notin DOMAIN outState.players
\* a character without rations is sent to a corner of the map by the path
\* finder, with the counter at STATE_MAX_STAY_IN_SPAWN_AREA
SentToCorner(k) ==
    /\ GetChar(outState, k).coord \in Corners
    /\ GetChar(outState, k).stay_in_spawn_area = STATE_MAX_STAY_IN_SPAWN_AREA
\* character k is left by KillSpawnArea with the counter v, which it still
\* has in the out-state if it is there and has not been sent to a corner
SpawnSpared(k, v) ==
    /\ HasChar(loc.spawnArea, k)
    /\ GetChar(loc.spawnArea, k).stay_in_spawn_area = v
    /\ k[2] = 0 /\ k[1] \in stepResult.killedPlayers
          => stepResult.killedBy[k[1]] # "KILLED_SPAWN"
    /\ HasChar(outState, k)
          => GetChar(outState, k).stay_in_spawn_area = v \/ SentToCorner(k)
InKeys == {CharKeys(inState)[j] : j \in 1..Len(CharKeys(inState))}
\* in the step before, character k was on a bank, not in stasis, with the
\* counter v
CountedBefore(k, v) ==
    /\ Consecutive
    /\ HasChar(memo.inState, k)
    /\ OnBank(memo.inState, k) /\ ~InStasis(memo.inState, k)
    /\ GetChar(memo.inState, k).stay_in_spawn_area = v

\* C20: in every step before the fork FORK_TIMESAVE, KillSpawnArea sets the
\* counter stay_in_spawn_area of a character that is not on a bank to 0,
\* raises the one of a character on a bank that is not in stasis by 1, and
\* kills this character with the cause KILLED_SPAWN, and its player if it is
\* the general, when it finds the counter at MaxStayOnBank (30, and 2 after
\* FORK_LIFESTEAL) or above: a character that is found with MaxStayOnBank - 1
\* is killed in the next step if it stays on the bank. Nobody is killed while
\* MaxStayOnBank is -1, and a character in stasis on a bank is neither
\* counted nor killed.
C20_SpawnTimer ==
    SpawnAreaStep =>
       \A k \in InKeys :
          /\ IF ~OnBank(inState, k) THEN SpawnSpared(k, 0)
             ELSE IF InStasis(inState, k) THEN SpawnSpared(k, StayIn(k))
             ELSE IF MaxStayOfStep = -1 \/ StayIn(k) < MaxStayOfStep
             THEN SpawnSpared(k, StayIn(k) + 1)
             ELSE SpawnKilled(k)
          /\ (CountedBefore(k, MaxStayOfStep - 1) /\ OnBank(inState, k) /\ ~InStasis(inState, k))
                => SpawnKilled(k)

\* the second of two steps kills a general that the first one has found on a
\* bank with 29, and leaves a general in stasis on a bank with its 30; the
\* first one has set the counter of a general that is not on a bank to 0
C20_Witness ==
    /\ Accepted /\ SpawnAreaStep /\ MaxStayOfStep = 30
    /\ \E k \in InKeys :
          /\ k[2] = 0 /\ CountedBefore(k, 29) /\ OnBank(inState, k) /\ StayIn(k) = 30
          /\ SpawnKilled(k)
    /\ \E k \in InKeys :
          /\ OnBank(inState, k) /\ InStasis(inState, k) /\ StayIn(k) = 30
          /\ HasChar(outState, k) /\ GetChar(outState, k).stay_in_spawn_area = 30
    /\ \E k \in InKeys :
          /\ HasChar(memo.inState, k) /\ ~OnBank(memo.inState, k)
          /\ GetChar(memo.inState, k).stay_in_spawn_area = 29
          /\ StayIn(k) = 0


\* the characters before the banking loop, the bounties that the loop has
\* appended and the tax that it has added
MovedKeys == {CharKeys(loc.moved)[j] : j \in 1..Len(CharKeys(loc.moved))}
BankedBounties ==
    SubSeq(loc.bankedResult.bounties, Len(loc.movedResult.bounties) + 1,
           Len(loc.bankedResult.bounties))
BountiesOf(k) ==
    {j \in 1..Len(BankedBounties) :
        BankedBounties[j].player = k[1] /\ BankedBounties[j].index = k[2]}
BankingTax == loc.bankedResult.nTaxAmount - loc.movedResult.nTaxAmount
ClaimedBankTax(loot) == IF loc.moved.dao_MinVersion < 2020700 THEN loot \div 10 ELSE 0
\* character k is one that banks: not in stasis, with loot, on a bank or,
\* after FORK_TIMESAVE, on a spawn tile of the players
Banks(k) ==
    /\ "STASIS" \notin GetChar(loc.moved, k).ai_state2
    /\ GetChar(loc.moved, k).loot > 0
    /\ \/ IsBank(loc.moved, GetChar(loc.moved, k).coord)
       \/ /\ ForkInEffect(FORK_TIMESAVE, loc.moved.nHeight)
          /\ GetChar(loc.moved, k).coord \in TsPlayerTiles

\* C21: in every step that gets to the banking loop, every character that
\* is not in stasis, carries loot and stands on a bank (or, after
\* FORK_TIMESAVE, on a spawn tile of the players) after the movement passes
\* has its loot cleared, and exactly one bounty is appended for it, of the
\* loot less the tax of a tenth (rounded down) that is added to nTaxAmount
\* (no tax from the minimum version 2020700 on); every other character, so
\* every one in stasis, keeps its loot and gets no bounty.
C21_Banking ==
    (Returned /\ "Banking" \in TraceNames) =>
       /\ \A k \in MovedKeys :
             IF Banks(k)
             THEN /\ GetChar(loc.banked, k).loot = 0
                  /\ Cardinality(BountiesOf(k)) = 1
                  /\ \A j \in BountiesOf(k) :
                        BankedBounties[j].nAmount
                           = GetChar(loc.moved, k).loot
                             - ClaimedBankTax(GetChar(loc.moved, k).loot)
             ELSE /\ GetChar(loc.banked, k).loot = GetChar(loc.moved, k).loot
                  /\ BountiesOf(k) = {}
       /\ BankingTax = Sum([k \in {x \in MovedKeys : Banks(x)} |->
                               ClaimedBankTax(GetChar(loc.moved, k).loot)])
       /\ Len(BankedBounties) = Cardinality({x \in MovedKeys : Banks(x)})

\* a character with 33 coins on a bank is banked with a tax of 3 while a
\* character in stasis on another bank keeps its 50 coins
C21_Witness ==
    /\ Accepted /\ "Banking" \in TraceNames
    /\ \E k \in MovedKeys :
          /\ Banks(k) /\ GetChar(loc.moved, k).loot = 33
          /\ \E j \in BountiesOf(k) : BankedBounties[j].nAmount = 30
          /\ BankingTax >= 3
    /\ \E k \in MovedKeys :
          /\ "STASIS" \in GetChar(loc.moved, k).ai_state2
          /\ IsBank(loc.moved, GetChar(loc.moved, k).coord)
          /\ GetChar(loc.moved, k).loot = 50
          /\ HasChar(outState, k) /\ GetChar(outState, k).loot = 50


\* the amount that HandleKilledLoot disposes of: the loot of the character
\* and, for a general whose locked coins are not refunded, these coins
KilledAmount ==
    GetChar(inState, <<1, loc.chInd>>).loot
    + (IF loc.chInd = 0 /\ stepResult.bounties = <<>> THEN inState.players[1].value ELSE 0)
\* what has been dropped on the map or put into the game fund
KilledDropped ==
    (Sum(outState.loot) - Sum(inState.loot)) + (outState.gameFund - inState.gameFund)

\* C22: HandleKilledLoot adds floor(amount / 25) to nTaxAmount and takes it
\* from the amount that is dropped exactly when the cause of the death is not
\* KILLED_SPAWN and the cached minimum version is below 2020700; otherwise
\* nTaxAmount is unchanged and the whole amount is dropped.
C22_DeathTax ==
    (pc = "handled" /\ ret # "abort") =>
       IF loc.reason # "KILLED_SPAWN" /\ loc.Cache_min_version < 2020700
       THEN /\ stepResult.nTaxAmount = KilledAmount \div 25
            /\ KilledDropped = KilledAmount - KilledAmount \div 25
       ELSE /\ stepResult.nTaxAmount = 0
            /\ KilledDropped = KilledAmount

\* a general with 60 coins and 2000 locked coins that is killed by a destruct
\* pays a tax of 82
C22_Witness ==
    /\ pc = "handled" /\ ret # "abort"
    /\ loc.reason = "KILLED_DESTRUCT" /\ loc.Cache_min_version < 2020700
    /\ loc.chInd = 0 /\ KilledAmount = 2060
    /\ stepResult.nTaxAmount = 82 /\ KilledDropped = 1978


\* the death flags of character k in state s
Flags(s, k) == GetChar(s, k).ai_state2 \cap DeathFlags
KilledKeys == {CharKeys(loc.killed)[j] : j \in 1..Len(CharKeys(loc.killed))}
\* character k gets a death flag in the passes that follow the kills
NewlyFlagged(k) ==
    /\ HasChar(loc.moved, k)
    /\ Flags(loc.killed, k) = {} /\ Flags(loc.moved, k) # {}


\* the characters that KillRangedAttacks acts on: not in stasis, no merchant
Attackable(ch) == "STASIS" \notin ch.ai_state2 /\ ~NPCROLE_IS_MERCHANT(ch.ai_npc_role)

\* the place of a pass in the order of the passes of the step
PassIndex(name) == CHOOSE j \in 1..Len(loc.trace) : loc.trace[j] = name

SavedByItem(k) ==
    LET a == GetChar(inState, k)
    IN /\ Flags(inState, k) # {}
       /\ ~AI_IS_SAFEZONE(a.coord[1], a.coord[2])
       /\ a.ai_npc_role = 0
       /\ AI_ITEM_LIFE_SAVING \in {a.ai_slot_ring, a.ai_slot_amulet}
       /\ HasChar(loc.killed, k)
       /\ GetChar(loc.killed, k).ai_npc_role = 0
       /\ Flags(loc.killed, k) = {}

\* the character has paid the price of the ring in the kills of the step
PaidForRing(k) ==
    GetChar(loc.killed, k).loot = GetChar(inState, k).loot - PRICE_RING_IMMORTALITY * COIN

\* C24: a character that survives the kills of a step only for its Life
\* Saving ring or amulet loses the item: the ring slot does not hold Life
\* Saving after the kills unless the character has paid
\* PRICE_RING_IMMORTALITY for a new one, and without such a ring the amulet
\* slot is empty.
C24_LifeSaverConsumed ==
    (Returned /\ "Banking" \in TraceNames) =>
        \A k \in InKeys :
           SavedByItem(k) =>
              LET a == GetChar(inState, k)
                  b == GetChar(loc.killed, k)
              IN /\ a.ai_slot_ring = AI_ITEM_LIFE_SAVING =>
                       b.ai_slot_ring # AI_ITEM_LIFE_SAVING \/ PaidForRing(k)
                 /\ a.ai_slot_ring # AI_ITEM_LIFE_SAVING => b.ai_slot_amulet = 0


\* the characters before the ranged kills of the step that stand on a tile
\* of a safe zone
SafeKeys ==
    {k \in {CharKeys(loc.spawnArea)[j] : j \in 1..Len(CharKeys(loc.spawnArea))} :
        AI_IS_SAFEZONE(GetChar(loc.spawnArea, k).coord[1], GetChar(loc.spawnArea, k).coord[2])}

\* the characters before the hitscan of the step whose evaluated tile is in
\* a safe zone
ScannedSafeKeys ==
    {k \in {CharKeys(loc.pathed)[j] : j \in 1..Len(CharKeys(loc.pathed))} :
        AI_IS_SAFEZONE(HitscanTile(GetChar(loc.pathed, k))[1],
                       HitscanTile(GetChar(loc.pathed, k))[2])}

\* the hitscan of the step has given no death flag to a character whose
\* evaluated tile is in a safe zone
NoHitInSafeZone ==
    \A k \in ScannedSafeKeys : /\ HasChar(loc.scanned, k)
                               /\ Flags(loc.scanned, k) = Flags(loc.pathed, k)

\* C25 as stated: KillRangedAttacks removes no character that stands on a
\* tile of a safe zone, every such character is without death flags after
\* it, and the hitscan sets no death flag on a character whose evaluated
\* tile is in a safe zone.
C25_SafeZoneClearsFlags ==
    /\ (Returned /\ "KillRangedAttacks" \in TraceNames) =>
          \A k \in SafeKeys : HasChar(loc.ranged, k) /\ Flags(loc.ranged, k) = {}
    /\ (Returned /\ "Pass3_PaymentAndHitscan" \in TraceNames) => NoHitInSafeZone

\* C25: KillRangedAttacks removes no character that stands on a tile of a
\* safe zone; such a character is without death flags after it unless it is
\* in stasis or a merchant, which keep the flags they have; the hitscan sets
\* no death flag on a character whose evaluated tile is in a safe zone.
C25_SafeZonesProtect ==
    /\ (Returned /\ "KillRangedAttacks" \in TraceNames) =>
          \A k \in SafeKeys :
             /\ HasChar(loc.ranged, k)
             /\ Flags(loc.ranged, k) = IF Attackable(GetChar(loc.spawnArea, k)) THEN {}
                                       ELSE Flags(loc.spawnArea, k)
    /\ (Returned /\ "Pass3_PaymentAndHitscan" \in TraceNames) => NoHitInSafeZone

\* a hit character in a safe zone has survived the ranged kills as the hunter
\* it was, and the tile of a character in a safe zone was under attack in
\* the hitscan of the same step
C25_Witness ==
    /\ Accepted
    /\ \E k \in SafeKeys : /\ Flags(loc.spawnArea, k) # {}
                           /\ Flags(loc.ranged, k) = {}
                           /\ GetChar(loc.ranged, k).ai_npc_role = 0
    /\ \E k \in ScannedSafeKeys :
          \E d \in g.Damageflagmap :
             /\ <<d[1], d[2]>> = HitscanTile(GetChar(loc.pathed, k))
             /\ d[3] = loc.pathed.players[k[1]].color
             /\ Attackable(GetChar(loc.pathed, k))


\* the best request of a voting round and the snapshot of the round before
BestOf(s) == <<s.dao_BestFee, s.dao_BestRequest, s.dao_BestName, s.dao_BestComment>>
FinalOf(s) ==
    <<s.dao_BestFeeFinal, s.dao_BestRequestFinal, s.dao_BestNameFinal, s.dao_BestCommentFinal>>
NoRequest == <<0, 0, NoPlayer, "">>

\* the step has run Pass1_DAO with the sentinel merchant on the map
DaoRan == Returned /\ "Pass1_DAO" \in TraceNames /\ MERCH_INFO_DEVMODE \in g.Merchant_exists

\* C26: with the sentinel merchant on the map, a step inside a bounty cycle
\* does not lower dao_BestFee and changes the best request only with a
\* strictly larger fee, which is the fee of the player named as the best; a
\* step at a height that is a multiple of RPG_INTERVAL_BOUNTYCYCLE copies
\* the best request to the final snapshot, or clears the snapshot when no
\* fee was bid, and resets the best request.
C26_DaoRotation ==
    DaoRan =>
       IF outState.nHeight % RPG_INTERVAL_BOUNTYCYCLE # 0
       THEN /\ outState.dao_BestFee >= inState.dao_BestFee
            /\ BestOf(outState) # BestOf(inState) =>
                  /\ outState.dao_BestFee > inState.dao_BestFee
                  /\ outState.dao_BestName \in DOMAIN outState.players
                  /\ LET pl == outState.players[outState.dao_BestName]
                     IN BestOf(outState) = <<pl.coins_fee, pl.coins_request,
                                             outState.dao_BestName, pl.msg_comment>>
       ELSE /\ FinalOf(outState) = IF inState.dao_BestFee > 0 THEN BestOf(inState)
                                   ELSE NoRequest
            /\ BestOf(outState) = NoRequest

\* the best request of a round has become the final snapshot at the end of
\* the round, and the first request of the next round is the best one
C26_Witness ==
    /\ Accepted /\ Consecutive /\ DaoRan
    /\ memo.inState.dao_BestFee > 0
    /\ FinalOf(memo.outState) = BestOf(memo.inState)
    /\ BestOf(inState) = NoRequest
    /\ outState.dao_BestFee > 0


\* the moves of the step and the steps that have paid their fees
MoveIndices == 1..Len(stepData.vMoves)
FeesPaid == Returned /\ "ApplyAttacks" \in TraceNames

\* C27 as stated: the locked coins that the moves of a step add, those of
\* spawns included, are added to moneyIn and to the game fund.
C27_AllFeesToFund ==
    FeesPaid =>
       /\ loc.moneyIn = Sum([j \in MoveIndices |-> LockedDelta(stepData.vMoves[j], inState)])
       /\ loc.fundAfter - loc.fundBefore =
             Sum([j \in MoveIndices |-> LockedDelta(stepData.vMoves[j], inState)])

\* C27: the locked coins that the moves of a step add are added to moneyIn;
\* the loop that pays the fees adds to the game fund those of the moves that
\* are not spawns, and nothing for a spawn.
C27_GameFees ==
    FeesPaid =>
       /\ loc.moneyIn = Sum([j \in MoveIndices |-> LockedDelta(stepData.vMoves[j], inState)])
       /\ loc.fundAfter - loc.fundBefore =
             Sum([j \in {i \in MoveIndices : ~IsSpawn(stepData.vMoves[i])} |->
                     LockedDelta(stepData.vMoves[j], inState)])

\* an accepted step with a move that raises the locked coins of a player
C27_Witness ==
    /\ Accepted
    /\ \E j \in MoveIndices : /\ ~IsSpawn(stepData.vMoves[j])
                              /\ LockedDelta(stepData.vMoves[j], inState) > 0
    /\ loc.fundAfter > loc.fundBefore
    /\ loc.moneyIn = loc.fundAfter - loc.fundBefore


\* the visit that has just been made: the price asked, whether the hunter
\* stood on the tile of the merchant, and whether it was able to buy
Visited == pc = "shop" /\ loc.visits > 0
VisitPrice == Rpg_getMerchantOffer(loc.gBefore, loc.M, loc.h - 1) * COIN
VisitSlot == ShopOffer(loc.M)[2]
VisitItem == ShopOffer(loc.M)[3]
OnMerchantTile ==
    loc.chBefore.ai_npc_role = 0 /\ AI_TILE_IS_MERCHANT(loc.gBefore, loc.chBefore.coord, loc.M)
CanBuy == loc.chBefore[VisitSlot] # VisitItem /\ loc.chBefore.loot >= VisitPrice
HasBought ==
    loc.ch = [loc.chBefore EXCEPT !.loot = @ - VisitPrice, ![VisitSlot] = VisitItem]

\* the ring of word recall is not sold to the holder of a ring of life saving
RingKept == loc.M = 16 /\ loc.chBefore.ai_slot_ring = AI_ITEM_LIFE_SAVING

\* C28 as stated: a hunter on the tile of a merchant that is there gets the
\* item and pays the discounted price if and only if its slot does not hold
\* the item and its loot covers the price; otherwise the character is
\* unchanged; it pays at most once while it stays.
C28_PurchaseIffAffordable ==
    Visited =>
       /\ OnMerchantTile => IF CanBuy THEN HasBought ELSE loc.ch = loc.chBefore
       /\ loc.sales <= 1

\* C28: a hunter on the tile of a merchant that is there gets the item and
\* pays the discounted price if and only if its slot does not hold the item,
\* its loot covers the price, and it is not a holder of the ring of life
\* saving at the merchant of the ring of word recall; in every other case
\* the character is unchanged; it pays at most once while it stays.
C28_Purchase ==
    Visited =>
       /\ IF OnMerchantTile /\ CanBuy /\ ~RingKept THEN HasBought ELSE loc.ch = loc.chBefore
       /\ loc.sales <= 1

\* a hunter has bought the item at a reduced price in the first block and
\* has stayed for a second block with loot left that covers the price
C28_Witness ==
    /\ Visited /\ loc.visits = 2 /\ loc.sales = 1
    /\ loc.ch = loc.chBefore
    /\ loc.ch[VisitSlot] = VisitItem
    /\ OnMerchantTile
    /\ loc.ch.loot >= VisitPrice
    /\ loc.ch.loot > 2 * MerchantBasePrice[loc.M] * COIN
    /\ loc.gBefore.Merchant_last_sale[loc.M] = loc.h - 2


\* the waypoints of character k when MoveTowardsWaypointX_Merchants runs:
\* those that the moves of the block have left, which the path-finding loop
\* clears for a character in spectator mode
WaypointsAtMerchants(k) ==
    LET c0 == GetChar(loc.waypointed, k)
    IN IF StateForkInEffect(loc.waypointed, FORK_TIMESAVE)
          /\ CharacterInSpectatorMode(c0.stay_in_spawn_area)
       THEN <<>> ELSE c0.waypoints
\* the path-finding loop gets to character k
MerchantsRuns(k) ==
    /\ HasChar(loc.waypointed, k)
    /\ loc.waypointed.players[k[1]].dlevel = g.nCalculatedActiveDlevel
\* character k is left alone by the passes of the step
Frozen(k) ==
    /\ HasChar(loc.spawnArea, k) => HasChar(loc.ranged, k)
    /\ HasChar(outState, k) =>
          /\ GetChar(outState, k).coord = GetChar(inState, k).coord
          /\ InStasis(loc.pathed, k) /\ InStasis(outState, k)
          /\ Flags(loc.scanned, k) = Flags(loc.pathed, k)
          /\ Flags(outState, k) \subseteq Flags(inState, k)
          /\ GetChar(loc.banked, k).loot = GetChar(loc.moved, k).loot
          /\ BountiesOf(k) = {}

MapKeys == {k \in InKeys : IsInsideMap(GetChar(inState, k).coord[1], GetChar(inState, k).coord[2])}
\* the limit that PayUpkeep compares the global count with
Crowded == g.Rpg_TotalPopulationCount_global > g.Cache_adjusted_population_limit

\* C30 as it is written: the global population count of the step is the
\* number of the characters on the map that are not in stasis
C30_StasisNotCounted ==
    (Returned /\ "Pass0_CacheDataForGame" \in TraceNames) =>
       g.Rpg_TotalPopulationCount_global
          = Cardinality({k \in MapKeys : ~InStasis(inState, k)})

\* C30: the global population count that PayUpkeep compares with the
\* population limit is the number of all characters on the map, those in
\* stasis included
C30_GlobalPopulationCount ==
    (Returned /\ "Pass0_CacheDataForGame" \in TraceNames) =>
       g.Rpg_TotalPopulationCount_global = Cardinality(MapKeys)

\* a step from a state with six characters on the map, two of them in
\* stasis: the global count is six, which is above the population limit
C30_Witness ==
    /\ Accepted /\ "Pass0_CacheDataForGame" \in TraceNames
    /\ Cardinality({k \in MapKeys : InStasis(inState, k)}) = 2
    /\ Cardinality(MapKeys) = 6
    /\ g.Rpg_TotalPopulationCount_global = 6
    /\ Crowded


\* the pathfinder has run for character k, which it has found without rations
StarvesInStep(k) ==
    /\ MerchantsRuns(k)
    /\ ~InStasis(loc.pathed, k)
    /\ GetChar(loc.pathed, k).rpg_rations < 0
\* the corner of the map of the colour of character k
OwnCorner(s, k) == StarvationCorner(s.players[k[1]].color)
\* character k has come out of the step before as the pathfinder leaves a
\* character that starves
StarvedBefore(k) ==
    /\ Consecutive
    /\ HasChar(memo.inState, k)
    /\ GetChar(memo.inState, k).coord # OwnCorner(inState, k)
    /\ GetChar(inState, k).rpg_rations < 0
    /\ GetChar(inState, k).coord = OwnCorner(inState, k)
    /\ GetChar(inState, k).stay_in_spawn_area = STATE_MAX_STAY_IN_SPAWN_AREA
    /\ ~InStasis(inState, k)
\* the banks are the original ones
OriginalBanks(s) == \A c \in DOMAIN s.banks : IsOriginalSpawnArea(c)

\* C31: a character out of stasis that the pathfinder finds with negative
\* rations stands on the corner of the map of its colour after the
\* path-finding pass, and in the out-state, with stay_in_spawn_area at 30;
\* with the original banks and MaxStayOnBank = 30, KillSpawnArea of the next
\* step kills it with the cause KILLED_SPAWN and takes no tax
C31_StarvationLogout ==
    /\ (Returned /\ "PathFinding" \in TraceNames) =>
          \A k \in InKeys :
             (HasChar(loc.pathed, k) /\ StarvesInStep(k)) =>
                /\ GetChar(loc.pathed, k).coord = OwnCorner(loc.pathed, k)
                /\ GetChar(loc.pathed, k).stay_in_spawn_area = STATE_MAX_STAY_IN_SPAWN_AREA
                /\ HasChar(outState, k) =>
                      /\ GetChar(outState, k).coord = OwnCorner(loc.pathed, k)
                      /\ GetChar(outState, k).stay_in_spawn_area = STATE_MAX_STAY_IN_SPAWN_AREA
    /\ (SpawnAreaStep /\ MaxStayOfStep = 30 /\ OriginalBanks(inState)) =>
          \A k \in InKeys :
             StarvedBefore(k) => (SpawnKilled(k) /\ loc.spawnTax = 0)

\* the second of two steps, in which KillSpawnArea kills the general that
\* has starved in the first one, far from the corner, and drops its loot
C31_Witness ==
    /\ Accepted /\ SpawnAreaStep /\ MaxStayOfStep = 30 /\ OriginalBanks(inState)
    /\ \E k \in InKeys :
          /\ StarvedBefore(k) /\ k[2] = 0
          /\ GetChar(memo.inState, k).rpg_rations < 0
          /\ GetChar(memo.inState, k).stay_in_spawn_area = 0
          /\ SpawnKilled(k)
          /\ stepResult.killedBy[k[1]] = "KILLED_SPAWN"


\* the coord of character k at the stages of a step: in the in-state, after
\* the kill passes, after MoveTowardsWaypointX_Merchants and after the
\* pathfinder
CoordAfterMerchants(k) ==
    LET c0 == GetChar(loc.waypointed, k)
        r == MoveTowardsWaypointX_Merchants(
                 [ch |-> [c0 EXCEPT !.waypoints = WaypointsAtMerchants(k)], g |-> g],
                 loc.waypointed.players[k[1]].color, loc.waypointed.nHeight)
    IN IF MerchantsRuns(k) THEN r.ch.coord ELSE c0.coord
CoordStages(k) ==
    <<GetChar(inState, k).coord, GetChar(loc.waypointed, k).coord, CoordAfterMerchants(k),
      GetChar(loc.pathed, k).coord>>
\* the stages of the step at which the coord of character k changes
Displacements(k) ==
    {j \in 1..(Len(CoordStages(k)) - 1) : CoordStages(k)[j] # CoordStages(k)[j + 1]}
Chebyshev(a, b) == Max(Abs(a[1] - b[1]), Abs(a[2] - b[2]))
\* the characters of the in-state that are in the out-state of a step that
\* has run the movement passes
Movers ==
    IF Returned /\ "PathFinding" \in TraceNames
    THEN {k \in InKeys : HasChar(loc.waypointed, k) /\ HasChar(outState, k)}
    ELSE {}
\* MoveTowardsWaypointX_Merchants has sent character k home
EscapedAtMerchants(k) == CoordStages(k)[2] # CoordStages(k)[3]

\* the hitscan leaves character k where the pathfinder has put it, or sets
\* it back to the tile that it has left with its step
AfterHitscan(k) ==
    /\ GetChar(outState, k).coord = GetChar(loc.scanned, k).coord
    /\ \/ GetChar(loc.scanned, k).coord = CoordStages(k)[4]
       \/ /\ GetChar(loc.scanned, k).coord = CoordStages(k)[3]
          /\ Chebyshev(CoordStages(k)[3], CoordStages(k)[4]) = 1

\* C32: the coord of a character changes at one stage of a step at most, by
\* a step to a tile at Chebyshev distance 1 or by a teleport (the hitscan
\* may take back the step), and after the ESCAPE teleport of
\* MoveTowardsWaypointX_Merchants the pathfinder leaves it where it is
C32_OneDisplacement ==
    \A k \in Movers :
       /\ Cardinality(Displacements(k)) <= 1
       /\ AfterHitscan(k)
       /\ EscapedAtMerchants(k) => CoordStages(k)[4] = CoordStages(k)[3]


\* the players that the path-finding loop of the step has found
Travellers ==
    IF Returned /\ "PathFinding" \in TraceNames
    THEN DOMAIN loc.waypointed.players \cap DOMAIN loc.pathed.players
    ELSE {}
\* the level that player p has asked for in the block before, -1 without
RequestedLevel(p) ==
    LET pl == loc.waypointed.players[p]
    IN IF pl.msg_dlevel_block = loc.waypointed.nHeight - 1 THEN Strtol(pl.msg_dlevel) ELSE -1
\* the request of player p is one that the step can grant
GoodRequest(p) ==
    /\ loc.waypointed.players[p].dlevel = g.nCalculatedActiveDlevel
    /\ RequestedLevel(p) >= 0 /\ RequestedLevel(p) <= loc.waypointed.dao_DlevelMax
    /\ loc.waypointed.dao_MinVersion >= 2020600
\* a character of player p is out of stasis when the pathfinder is due
Awake(p) ==
    \E i \in DOMAIN loc.waypointed.players[p].characters :
       ~(InStasis(loc.waypointed, <<p, i>>) /\ WaypointsAtMerchants(<<p, i>>) = <<>>)
LevelBefore(p) == loc.waypointed.players[p].dlevel
LevelAfter(p) == loc.pathed.players[p].dlevel

\* C33 as it is written: a request that can be granted, of a player that has
\* a character out of stasis, sets the level of the player
C33_DlevelChangeAwake ==
    \A p \in Travellers :
       (GoodRequest(p) /\ Awake(p)) => LevelAfter(p) = RequestedLevel(p)

\* C33: the level of a player on the active level becomes the level asked
\* for in the block before when that level lies in [0, dao_DlevelMax],
\* dao_MinVersion >= 2020600 and all characters of the player are in stasis
\* when the pathfinder is due (every call of the pathfinder drops the
\* request); in every other case, so with a character out of stasis, with a
\* request above dao_DlevelMax or with dao_MinVersion < 2020600, the level
\* stays, and it is the same in the out-state
C33_DlevelChange ==
    \A p \in Travellers :
       /\ LevelAfter(p) = IF GoodRequest(p) /\ ~Awake(p) THEN RequestedLevel(p)
                          ELSE LevelBefore(p)
       /\ p \in DOMAIN outState.players => outState.players[p].dlevel = LevelAfter(p)

\* a step in which a player in stasis moves to level 1 while the players
\* with the same request and a character out of stasis, with a request for
\* level 3 and with a request of an earlier block stay on level 0
C33_Witness ==
    /\ Accepted /\ {3, 4, 6, 7, 8} \subseteq Travellers
    /\ GoodRequest(3) /\ ~Awake(3) /\ LevelBefore(3) = 0 /\ outState.players[3].dlevel = 1
    /\ GoodRequest(4) /\ Awake(4) /\ RequestedLevel(4) = 1 /\ outState.players[4].dlevel = 0
    /\ RequestedLevel(6) > loc.waypointed.dao_DlevelMax /\ outState.players[6].dlevel = 0
    /\ GoodRequest(7) /\ Awake(7) /\ outState.players[7].dlevel = 0
    /\ RequestedLevel(8) = -1 /\ outState.players[8].dlevel = 0


\* The start of a step for the lengths of a game round and the numbers of
\* dungeon levels that votes can produce: the constructor leaves the length
\* 0, a vote changes it by 1000 and the number of the top level by 1.
RoundLengths == {0, 1000, 2000, 3000}
RoundOffsets == {0, 1, 665, 666, 999, 1000, 1332, 1333, 1997, 1998, 1999, 2998}
RoundState(h, length, top) ==
    [ConstructedState EXCEPT !.nHeight = h, !.dao_MinVersion = STATE_VERSION,
                             !.dao_IntervalMonsterApocalypse = length,
                             !.dao_DlevelMax = top]

RoundInit ==
    /\ pc = "round"
    /\ inState \in {RoundState(FORK_TIMESAVE + d, length, top) :
                       d \in RoundOffsets, length \in RoundLengths,
                       top \in 0..(NUM_DUNGEON_LEVELS - 1)}
    /\ loc = NewLocals(InitialGlobals)
    /\ memo = NoCall
    /\ stepData = StepData(21, <<>>, 0)
    /\ outState = ConstructedState
    /\ stepResult = NewStepResult
    /\ ret = "none"
    /\ g = InitialGlobals
    /\ nSteps = 0

\* the first statements of PerformStep up to "Dungeon levels part 2"
RoundCall ==
    /\ pc = "round"
    /\ \E s \in {InitialiseStep(inState, stepData)} :
          /\ outState' = s
          /\ g' = CacheGameRound(g, s, inState)
    /\ pc' = "cached"
    /\ UNCHANGED <<inState, stepData, stepResult, ret, loc, memo, nSteps>>

RoundNext == RoundCall

RoundSpec == RoundInit /\ [][RoundNext]_vars

\* C34: the active dungeon level computed at the start of a step is one of
\* the levels 0..dao_DlevelMax
C34_ActiveDlevelExists ==
    pc = "cached" =>
       /\ g.nCalculatedActiveDlevel >= 0
       /\ g.nCalculatedActiveDlevel <= outState.dao_DlevelMax


\* no player of state s is on a level above the top level
NoneStranded(s) == \A p \in DOMAIN s.players : s.players[p].dlevel <= s.dao_DlevelMax

\* C35: after every step the dlevel of every player is at most
\* dao_DlevelMax, also after a vote has erased the top level
C35_NoStrandedPlayer ==
    (Accepted /\ NoneStranded(inState)) => NoneStranded(outState)


\* the step has got to the heart drop at a height of the life-steal fork
HeartDropAfterLifeSteal ==
    /\ pc = "done" /\ "DropHeart" \in TraceNames
    /\ StateForkInEffect(outState, FORK_LIFESTEAL)

\* C36: in every step with a non-null hash at a height where the life-steal
\* fork is in effect Rpg_hearts_spawn is false, the assertion of the heart
\* drop does not fail and hearts is empty
C36_NoHeartAfterLifeSteal ==
    HeartDropAfterLifeSteal =>
       /\ ~g.Rpg_hearts_spawn
       /\ inState.hearts = {} => (ret # "abort" /\ outState.hearts = {})


\* The heart drop of a step on its own: the census of Pass0_CacheDataForGame
\* and then the custom heart spawn, for states with and without the
\* merchants, with one and with three hunters, and for streams of the random
\* generator of which the first three give a tile near a point of interest.
HeartStreams == {504, 561, 1059, 0, 1, 5}
HeartHeights == {1000, 1001, FORK_LESSHEARTS + 10}
BasedMerchants ==
    {nm \in 1..MERCH_NORMAL_LAST :
        Merchant_base_x[nm] > 0 /\ Merchant_base_y[nm] > 0 /\ Merchant_color[nm] \in Colors}
HeartDropState(h, merchants, hunters) ==
    [AtHeight(h) EXCEPT
       !.players = [p \in 1..hunters \cup (IF merchants
                                            THEN {MerchantOwner(nm) : nm \in BasedMerchants}
                                            ELSE {}) |->
                       IF p <= hunters
                       THEN Owner(p % 4, 2000, Single(Hunter(<<150 + 10 * p, 150>>, 0)))
                       ELSE Owner(Merchant_color[p - 100], 3000,
                                  Single(Npc(p - 100, Merchant_base(p - 100), 0)))],
       !.dao_IntervalMonsterApocalypse = MIN_GAMEROUND_DURATION]

HeartInit ==
    /\ pc = "heart"
    /\ inState \in {HeartDropState(h, merchants, hunters) :
                       h \in HeartHeights, merchants \in BOOLEAN, hunters \in {1, 3}}
    /\ loc \in [rnd : HeartStreams]
    /\ memo = NoCall
    /\ stepData = StepData(21, <<>>, 0)
    /\ outState = ConstructedState
    /\ stepResult = NewStepResult
    /\ ret = "none"
    /\ g = InitialGlobals
    /\ nSteps = 0

\* the census at the start of the step and the heart drop at its end
HeartDrop ==
    /\ pc = "heart"
    /\ \E census \in {Pass0_CacheDataForGame(inState, CacheGameRound(g, inState, inState))} :
       \E r \in {DropHeart([s |-> inState, rnd |-> loc.rnd, fault |-> FALSE], census)} :
          /\ g' = census
          /\ outState' = r.s
          /\ ret' = IF r.fault THEN "abort" ELSE "none"
    /\ pc' = "dropped"
    /\ UNCHANGED <<inState, stepData, stepResult, loc, memo, nSteps>>

HeartNext == HeartDrop

HeartSpec == HeartInit /\ [][HeartNext]_vars

\* the heart drop has added a heart
HeartAdded == pc = "dropped" /\ outState.hearts # inState.hearts

\* C37: a heart is added only if no merchant that has a base tile is missing
\* in the step and the population of the active level is below the target
\* or the height is a multiple of 10
C37_HeartNeedsMerchants ==
    HeartAdded =>
       /\ MissingMerchants(inState, g) = {}
       /\ g.Rpg_MissingMerchantCount = 0
       /\ \/ g.Rpg_TotalPopulationCount < RGP_POPULATION_TARGET(inState.nHeight)
          \/ inState.nHeight % 10 = 0


\* the character that holds the crown in the in-state, and what
\* UpdateCrownState of the step finds of it
HolderBefore == <<inState.crownHolder.player, inState.crownHolder.index>>
CrownStep ==
    /\ Returned /\ "Banking" \in TraceNames
    /\ inState.crownHolder.player # NoPlayer
HolderAlive == HasChar(loc.moved, HolderBefore)
HolderOnBank == HolderAlive /\ IsBank(loc.moved, GetChar(loc.moved, HolderBefore).coord)
HolderAfter == <<outState.crownHolder.player, outState.crownHolder.index>>
CrownSpawnTiles == {CrownSpawn[j] : j \in 1..Len(CrownSpawn)}


\* the holder of the in-state keeps the crown
HolderKeeps == HolderAlive /\ ~HolderOnBank
\* the characters that stand on the tile of the crown in the out-state
OnCrownTile ==
    {k \in {CharKeys(outState)[j] : j \in 1..Len(CharKeys(outState))} :
        GetChar(outState, k).coord = outState.crownPos}
\* where the crown is after the step
CrownFollows ==
    /\ HolderKeeps =>
          /\ HasChar(outState, HolderBefore)
          /\ outState.crownPos = GetChar(outState, HolderBefore).coord
    /\ ~HolderAlive => outState.crownPos = inState.crownPos
    /\ (HolderOnBank /\ WithHash) => outState.crownPos \in CrownSpawnTiles

\* C38 as it is written: the holder of the in-state is the holder of the
\* out-state iff its character exists and is not on a bank when
\* UpdateCrownState runs, and then crownPos is its coord; if it has died the
\* crown is unheld at its last position, if it has entered a bank the crown
\* is unheld and, with a non-null hash, on a crown-spawn tile
C38_CrownUnheld ==
    CrownStep =>
       /\ (HolderAfter = HolderBefore) <=> HolderKeeps
       /\ CrownFollows
       /\ ~HolderKeeps => outState.crownHolder = NoHolder

\* C38: the holder of the in-state is the holder of the out-state iff its
\* character exists and is not on a bank when UpdateCrownState runs, and
\* then crownPos is its coord; if it has died the crown stays at its last
\* position, if it has entered a bank the crown is moved to a crown-spawn
\* tile (non-null hash); in both cases CollectCrown of a step with a
\* non-null hash hands the crown to a character that stands on the tile of
\* the crown, and the crown is unheld only when there is none or the hash
\* is null
C38_CrownLifecycle ==
    CrownStep =>
       /\ (HolderAfter = HolderBefore) <=> HolderKeeps
       /\ CrownFollows
       /\ ~HolderKeeps =>
             IF WithHash /\ OnCrownTile # {} THEN HolderAfter \in OnCrownTile
             ELSE outState.crownHolder = NoHolder

\* the holder dies of poison and the general of another player, which
\* stands on the same tile, holds the crown after the step
C38_Witness ==
    /\ CrownStep /\ Accepted /\ WithHash
    /\ ~HolderAlive /\ HolderBefore = <<1, 0>>
    /\ HolderAfter = <<2, 0>>
    /\ outState.crownPos = inState.crownPos


\* the holder that state s names, if it names one, is a character of s
HolderExists(s) ==
    s.crownHolder.player # NoPlayer =>
       HasChar(s, <<s.crownHolder.player, s.crownHolder.index>>)

\* C39: in the out-state of every step, with a null and with a non-null
\* hash, and in the state in which CrownBonus runs, a crownHolder that is
\* not empty names a character that exists in players
C39_HolderNeverDangling ==
    /\ Returned => HolderExists(outState)
    /\ (pc = "done" /\ "CrownBonus" \in TraceNames) => HolderExists(loc.divided)

\* the holder of the crown dies in a step that pays a crown bonus: the
\* crown is not held when CrownBonus runs, the bonus goes to the game fund
\* and no player of the in-state is added
C39_Witness ==
    /\ CrownStep /\ ~HolderAlive /\ ret = "true" /\ WithHash
    /\ "CrownBonus" \in TraceNames /\ BonusOfStep > 0
    /\ BonusHolder = NoHolder /\ FundGain = BonusOfStep
    /\ HolderBefore[1] \notin DOMAIN outState.players
====
